---- MODULE Spec2Model ----
(***************************************************************************)
(* A model of the cryptographic core of passrep (package core): the user   *)
(* identity (user.go), its symmetric and asymmetric primitives, the        *)
(* permission predicate Can and the EntryView field accessors (entry.go).  *)
(*                                                                         *)
(* Byte strings are sequences of symbolic bytes.  Each kind of byte is a   *)
(* record with its own field names:                                        *)
(*   [b |-> c]                      a plain byte holding the character c    *)
(*   [ck, cn, ci, cp]               byte ci of the AES-CTR stream of GCM   *)
(*                                  under key ck and nonce cn, applied to  *)
(*                                  the byte cp                            *)
(*   [tk, tn, ta, tc, ti]           byte ti of the GCM tag under key tk    *)
(*                                  and nonce tn over the additional data  *)
(*                                  ta and the ciphertext tc               *)
(*   [der |-> <<i1, i2>>]           the body of a DER SEQUENCE of two      *)
(*                                  INTEGERs                               *)
(* The library primitives (AES-GCM, ECDSA, SHA-512, PBKDF2) are ideal: two *)
(* tags, signatures or digests are equal only when their inputs are.       *)
(* Base64 text is a sequence of characters, [c64 |-> byte] for the         *)
(* encoding of a byte and [bad |-> c] for a character outside the          *)
(* alphabet.                                                               *)
(***************************************************************************)
EXTENDS Integers, Sequences, FiniteSets, TLC

VARIABLES blob, origin, last, view, users, ent, written, cq, rk, mu, views

\* the variables of the first Entry design (entry.go, lines 1-502), of the
\* change procedure and of the password change procedure
ext == <<ent, written, cq, rk>>

vars == <<blob, origin, last, view, users, ext, mu, views>>

-----------------------------------------------------------------------------
(* Bounds of the model *)

\* longest plaintext / data handed to Encrypt and Sign
MaxLen == 2
\* length of the GCM nonce in bytes (gcm.NonceSize(), scaled down)
NonceSize == 2
\* length of the GCM tag in bytes (scaled down)
TagSize == 2

\* aes.BlockSize, the length of the initialisation vector (16 in the program)
BlockSize == 2

-----------------------------------------------------------------------------
(* Generic helpers *)

Nil == [nil |-> TRUE]

IsNil(v) == DOMAIN v = {"nil"}

\* all sequences over S of length at most n
RECURSIVE SeqsUpTo(_, _)
SeqsUpTo(S, n) ==
    IF n = 0 THEN {<<>>}
    ELSE LET shorter == SeqsUpTo(S, n - 1)
         IN  shorter \cup {Append(s, x) : s \in {t \in shorter : Len(t) = n - 1}, x \in S}

\* all sequences over S of length exactly n
SeqsOfLen(S, n) == {s \in SeqsUpTo(S, n) : Len(s) = n}

\* s[from+1 .. ] and s[1 .. to], as Go's s[from:] and s[:to]
SliceFrom(s, from) == SubSeq(s, from + 1, Len(s))
SliceTo(s, to) == SubSeq(s, 1, to)

Plain(c) == [b |-> c]
IsPlain(x) == DOMAIN x = {"b"}

\* []byte(s) for a string s of one-byte characters
Bytes(s) == [i \in 1..Len(s) |-> Plain(s[i])]

\* string(raw): a byte that is no character decodes to U+FFFD, written "?"
String(raw) == [i \in 1..Len(raw) |-> IF IsPlain(raw[i]) THEN raw[i].b ELSE "?"]

-----------------------------------------------------------------------------
(* encoding/base64 *)

IsB64Char(c) == DOMAIN c = {"c64"}
BadChar == [bad |-> "!"]

EncodeToString(raw) == [i \in 1..Len(raw) |-> [c64 |-> raw[i]]]

DecodeString(s) ==
    IF \A i \in 1..Len(s) : IsB64Char(s[i])
    THEN [err |-> "nil", raw |-> [i \in 1..Len(s) |-> s[i].c64]]
    ELSE [err |-> "illegal base64 data", raw |-> <<>>]

-----------------------------------------------------------------------------
(* crypto/cipher: the AEAD returned by cipher.NewGCM *)

\* XOR with the key stream: applying it twice under the same key, nonce and
\* position gives the byte back
CtrByte(key, nonce, i, x) ==
    IF DOMAIN x = {"ck", "cn", "ci", "cp"} /\ x.ck = key /\ x.cn = nonce /\ x.ci = i
    THEN x.cp
    ELSE [ck |-> key, cn |-> nonce, ci |-> i, cp |-> x]

CounterCrypt(key, nonce, in) == [i \in 1..Len(in) |-> CtrByte(key, nonce, i, in[i])]

GcmTag(key, nonce, aad, ct) ==
    [j \in 1..TagSize |-> [tk |-> key, tn |-> nonce, ta |-> aad, tc |-> ct, ti |-> j]]

\* Seal appends ciphertext and tag to dst
Seal(key, dst, nonce, plaintext, aad) ==
    LET ct == CounterCrypt(key, nonce, plaintext)
    IN  dst \o ct \o GcmTag(key, nonce, aad, ct)

\* Open authenticates, then appends the plaintext to dst
Open(key, dst, nonce, ciphertext, aad) ==
    IF Len(ciphertext) < TagSize
    THEN [err |-> "cipher: message authentication failed", data |-> <<>>]
    ELSE LET ct  == SliceTo(ciphertext, Len(ciphertext) - TagSize)
             tag == SliceFrom(ciphertext, Len(ciphertext) - TagSize)
         IN  IF tag # GcmTag(key, nonce, aad, ct)
             THEN [err |-> "cipher: message authentication failed", data |-> <<>>]
             ELSE [err |-> "nil", data |-> dst \o CounterCrypt(key, nonce, ct)]

-----------------------------------------------------------------------------
(* encoding/asn1, crypto/sha512, crypto/ecdsa, pbkdf2 *)

\* the tag byte that opens a DER SEQUENCE
DerHdr == Plain("0")

\* asn1.Marshal of a structure of two big integers
Marshal(i1, i2) == <<DerHdr, [der |-> <<i1, i2>>]>>

\* asn1.Unmarshal into a structure of two big integers: the value and the
\* bytes that follow it
Unmarshal(raw) ==
    IF Len(raw) >= 2 /\ raw[1] = DerHdr /\ DOMAIN raw[2] = {"der"}
    THEN [err |-> "nil", val |-> raw[2].der, rest |-> SliceFrom(raw, 2)]
    ELSE [err |-> "asn1: structure error", val |-> <<>>, rest |-> <<>>]

Sum512(data) == [sha512 |-> data]

\* the order of the curve's base point (P-521, scaled down to a small prime)
CurveN == 11

\* curve.ScalarBaseMult(k): the point k*G, as its two coordinates
ScalarBaseMult(k) == <<[px |-> k], [py |-> k]>>

\* ecdsa.Sign with the random nonce k
EcdsaSign(k, d, hash) == <<[r |-> k], [sk |-> k, sh |-> hash, sd |-> d]>>

\* ecdsa.Verify of (r, s) over hash under the public point (x, y)
EcdsaVerify(x, y, hash, r, s) ==
    /\ DOMAIN r = {"r"}
    /\ DOMAIN s = {"sk", "sh", "sd"}
    /\ s.sk = r.r
    /\ s.sh = hash
    /\ <<x, y>> = ScalarBaseMult(s.sd)

\* pbkdf2.Key(password, salt, 100000, size, sha512.New)
Pbkdf2(password, salt, size) == [pw |-> password, salt |-> salt, size |-> size]

PwCode(password) ==
    CASE password = "secret" -> 4
      [] password = "password" -> 7
      [] OTHER -> 9

DigitVal(x) ==
    IF ~IsPlain(x) THEN 0
    ELSE CASE x.b = "1" -> 1 [] x.b = "2" -> 2 [] x.b = "3" -> 3
           [] x.b = "4" -> 4 [] x.b = "5" -> 5 [] x.b = "6" -> 6
           [] OTHER -> 0

RECURSIVE SaltCode(_)
SaltCode(salt) ==
    IF salt = <<>> THEN 0 ELSE DigitVal(Head(salt)) + 10 * SaltCode(Tail(salt))

\* new(big.Int).SetBytes(raw) of a PBKDF2 output
SetBytes(raw) == PwCode(raw.pw) * 100 + SaltCode(raw.salt)

-----------------------------------------------------------------------------
(* Keys and users *)

GetCryptoSalt(user) == DecodeString(user.CryptoSalt)

GetSigningSalt(user) == DecodeString(user.SigningSalt)

\* the scalar reduced modulo the order of the curve
ScalarOf_ModN(raw) == SetBytes(raw) % CurveN

\* the signing scalar of a PBKDF2 output: k.Mod(k, n - 1), k.Add(k, one)
ScalarOf(raw) == (SetBytes(raw) % (CurveN - 1)) + 1

\* MakeKeys: the private keys of a user from the salts and the password
MakeKeys(user, password) ==
    LET cs == GetCryptoSalt(user)
        ss == GetSigningSalt(user)
    IN  IF cs.err # "nil" THEN [err |-> cs.err, keys |-> Nil]
        ELSE IF ss.err # "nil" THEN [err |-> ss.err, keys |-> Nil]
        ELSE LET raw == Pbkdf2(password, ss.raw, "curve")
                 k   == ScalarOf(raw)
                 pt  == ScalarBaseMult(k)
             IN  [err  |-> "nil",
                  keys |-> [CryptoKey  |-> Pbkdf2(password, cs.raw, "32"),
                            SigningKey |-> [D |-> k, X |-> pt[1], Y |-> pt[2]]]]

\* updatePublicKey: the base64 of the DER encoding of the public point
updatePublicKey(user) ==
    IF IsNil(user.keys) THEN [err |-> "Keys not available", user |-> user]
    ELSE [err  |-> "nil",
          user |-> [user EXCEPT !.PublicKey =
                       EncodeToString(Marshal(user.keys.SigningKey.X,
                                              user.keys.SigningKey.Y))]]

\* NewUser with the two salts drawn from the random source; the row
\* identifier is the one the database gives the new row
NewUser(id, name, password, cryptoSalt, signingSalt) ==
    LET u0 == [Id |-> id, Name |-> name,
               CryptoSalt  |-> EncodeToString(cryptoSalt),
               SigningSalt |-> EncodeToString(signingSalt),
               PublicKey   |-> <<>>, keys |-> Nil]
        mk == MakeKeys(u0, password)
        u1 == [u0 EXCEPT !.keys = mk.keys]
    IN  updatePublicKey(u1).user

\* the users of the database: the fixed admin and two ordinary users, who
\* share a password and differ in their salts
Admin == NewUser(1, "admin", "secret", Bytes(<<"1", "2">>), Bytes(<<"3", "4">>))
Alice == NewUser(2, "alice", "password", Bytes(<<"2", "1">>), Bytes(<<"5", "1">>))
Bob   == NewUser(3, "bob", "password", Bytes(<<"4", "3">>), Bytes(<<"6", "2">>))

SessionUsers == {Admin, Alice, Bob}

\* a row that keeps the keys
Row_KeepKeys(user) == user

\* the row of a user as the database holds it: the keys are not a column
Row(user) == [user EXCEPT !.keys = Nil]

\* the users table once the three users are created
DB == {Row(u) : u \in SessionUsers}

\* the user object a database query fills in; the zero User when no row matches
EmptyUser == [Id |-> 0, Name |-> "", CryptoSalt |-> <<>>, SigningSalt |-> <<>>,
              PublicKey |-> <<>>, keys |-> Nil]

Related(id) ==
    IF \E u \in users : u.Id = id THEN CHOOSE u \in users : u.Id = id
    ELSE EmptyUser

\* every user object a caller can hold: with session keys (from NewUser) or
\* without (from LoadUser)
UserObjects == SessionUsers \cup DB

-----------------------------------------------------------------------------
(* The users table (user.go, NewUser and LoadUser) *)

\* a unique column of the new row is taken by a row of the table
Conflicts(table, user) ==
    \E u \in table : \/ u.Name = user.Name
                     \/ u.CryptoSalt = user.CryptoSalt
                     \/ u.SigningSalt = user.SigningSalt
                     \/ u.PublicKey = user.PublicKey

\* the identifier the database gives the next row
NextId(table) ==
    IF table = {} THEN 1
    ELSE 1 + (CHOOSE i \in {u.Id : u \in table} : \A u \in table : u.Id <= i)

\* DB.Create(user): the row is inserted and the object receives its
\* identifier; on a conflict nothing is inserted. NewUser does not look at
\* the outcome.
Create(table, user) ==
    IF Conflicts(table, user) THEN [table |-> table, user |-> user]
    ELSE LET made == [user EXCEPT !.Id = NextId(table)]
         IN  [table |-> table \cup {Row(made)}, user |-> made]

\* NewUser with the database: the salts are the outcomes of the random
\* source, <<>> when it fails
NewUserIn(table, name, password, cryptoSalt, signingSalt) ==
    IF cryptoSalt = <<>> \/ signingSalt = <<>>
    THEN [err |-> "RNG failure!", user |-> EmptyUser, table |-> table]
    ELSE LET made == Create(table, NewUser(0, name, password, cryptoSalt, signingSalt))
         IN  [err |-> "nil", user |-> made.user, table |-> made.table]

\* LoadUser: the first row with the name
LoadUser(table, name) ==
    IF \E u \in table : u.Name = name
    THEN [err |-> "nil", user |-> CHOOSE u \in table : u.Name = name]
    ELSE [err |-> "User not found", user |-> EmptyUser]

\* user.Drop(): the row with the object's identifier is deleted
Drop(table, user) == {u \in table : u.Id # user.Id}

-----------------------------------------------------------------------------
(* Error (error.go) *)

\* A string is a sequence of pieces of text. An error value is an *Error,
\* [File, Line, User, Msg], or an error of another package, [foreign |-> msg].

ZeroError == [File |-> "", Line |-> 0, User |-> <<>>, Msg |-> <<>>]

IsError(e) == DOMAIN e = {"File", "Line", "User", "Msg"}

\* fmt.Sprintf("%s:%d", file, line)
FileLine(file, line) == <<[file |-> file, line |-> line]>>

\* Error(): file:line, " - " and the user, ": ", then the message
ErrorString(this) ==
    LET where == IF this.File # "" THEN FileLine(this.File, this.Line) ELSE <<>>
        who   == IF Len(this.User) > 0
                 THEN (IF Len(where) > 0 THEN where \o <<" - ">> ELSE where) \o this.User
                 ELSE where
    IN  (IF Len(who) > 0 THEN who \o <<": ">> ELSE who) \o this.Msg

\* SetUser: the name of a *User, or the string; any other value is ignored
SetUser(this, user) ==
    CASE DOMAIN user = {"name"} -> [this EXCEPT !.User = <<user.name>>]
      [] DOMAIN user = {"str"}  -> [this EXCEPT !.User = IF user.str = "" THEN <<>>
                                                         ELSE <<user.str>>]
      [] OTHER -> this

\* c.Error() of the content when it is an error
MessageOf(content) ==
    CASE IsError(content) -> ErrorString(content)
      [] DOMAIN content = {"foreign"} -> <<content.foreign>>
      [] DOMAIN content = {"str"} -> <<content.str>>
      [] OTHER -> <<>>

\* NewError(content, user...): caller is what runtime.Caller(1) returns,
\* [ok, file, line]
NewError(content, user, caller) ==
    LET named == IF IsNil(user) THEN ZeroError ELSE SetUser(ZeroError, user)
        msgd  == [named EXCEPT !.Msg = MessageOf(content)]
    IN  IF caller.ok THEN [msgd EXCEPT !.File = caller.file, !.Line = caller.line]
        ELSE msgd

-----------------------------------------------------------------------------
(* Grant (error.go, lines 73-105) and the package's Sign and Verify *)

\* Sign(data, key) of the package: the empty string
CryptoSign(data, key) == ""

\* Verify(data, signature, key) of the package: true
CryptoVerify(data, signature, key) == TRUE

\* GetUserPubkey(signer)
GetUserPubkey(signer) == [pubkey |-> signer]

\* id + user + signer: the strings are put end to end
GrantData(id, user, signer) == id \o user \o signer

\* NewGrant(id, user, signer, signerkey)
NewGrant(id, user, signer, signerkey) ==
    [Id |-> id, User |-> user, Signer |-> signer,
     Signature |-> CryptoSign(GrantData(id, user, signer), signerkey)]

\* Grant.Verify
GrantVerify(this) ==
    CryptoVerify(GrantData(this.Id, this.User, this.Signer), this.Signature,
                 GetUserPubkey(this.Signer))

\* Grant.For
GrantFor(this, id, user) == id = this.Id /\ user = this.User /\ GrantVerify(this)

-----------------------------------------------------------------------------
(* User: symmetric encryption (user.go) *)

\* getEncryptionKey: the private symmetric key, nil without session keys
getEncryptionKey(user) == IF IsNil(user.keys) THEN Nil ELSE user.keys.CryptoKey

\* Encrypt, with nonce the outcome of utils.RandomBytes (Nil when it fails)
Encrypt(user, data, nonce) ==
    LET key == getEncryptionKey(user)
    IN  IF IsNil(key) THEN [err |-> "Private key unavailable", str |-> <<>>]
        ELSE IF nonce = <<>> THEN [err |-> "Nonce generation failed", str |-> <<>>]
        ELSE LET raw == Seal(key, data, nonce, data, <<>>)
             IN  [err |-> "nil", str |-> EncodeToString(nonce \o raw)]

\* Decrypt without the test of the length against the nonce size: slicing a
\* short text panics
Decrypt_NoLengthCheck(user, encrypted) ==
    LET dec == DecodeString(encrypted)
        key == getEncryptionKey(user)
    IN  IF dec.err # "nil" THEN [err |-> dec.err, data |-> <<>>]
        ELSE IF IsNil(key) THEN [err |-> "Private key unavailable", data |-> <<>>]
        ELSE IF Len(dec.raw) < NonceSize THEN [err |-> "panic", data |-> <<>>]
        ELSE Open(key, SliceFrom(dec.raw, NonceSize), SliceTo(dec.raw, NonceSize),
                  SliceFrom(dec.raw, NonceSize), <<>>)

\* Decrypt
Decrypt(user, encrypted) ==
    LET dec == DecodeString(encrypted)
        key == getEncryptionKey(user)
    IN  IF dec.err # "nil" THEN [err |-> dec.err, data |-> <<>>]
        ELSE IF IsNil(key) THEN [err |-> "Private key unavailable", data |-> <<>>]
        ELSE IF Len(dec.raw) < NonceSize THEN [err |-> "Data too short", data |-> <<>>]
        ELSE Open(key, SliceFrom(dec.raw, NonceSize), SliceTo(dec.raw, NonceSize),
                  SliceFrom(dec.raw, NonceSize), <<>>)

-----------------------------------------------------------------------------
(* User: signatures (user.go) *)

\* Sign with the signature put after the data instead of before it
Sign_DataFirst(user, data, k) ==
    IF IsNil(user.keys) THEN [err |-> "panic", str |-> <<>>]
    ELSE LET sig    == EcdsaSign(k, user.keys.SigningKey.D, Sum512(data))
             rawSig == Marshal(sig[1], sig[2])
         IN  [err |-> "nil", str |-> EncodeToString(data \o rawSig)]

\* Sign, with k the randomness ecdsa.Sign reads; the keys are dereferenced
\* without a check
Sign(user, data, k) ==
    IF IsNil(user.keys) THEN [err |-> "panic", str |-> <<>>]
    ELSE LET sig    == EcdsaSign(k, user.keys.SigningKey.D, Sum512(data))
             rawSig == Marshal(sig[1], sig[2])
         IN  [err |-> "nil", str |-> EncodeToString(rawSig \o data)]

\* Verify reporting a signature that does not match as an error
Verify_ErrOnInvalid(user, signed) ==
    LET dec == DecodeString(signed)
        kd  == DecodeString(user.PublicKey)
        key == Unmarshal(kd.raw)
        sig == Unmarshal(dec.raw)
        ok  == EcdsaVerify(key.val[1], key.val[2], Sum512(sig.rest),
                           sig.val[1], sig.val[2])
    IN  IF dec.err # "nil" THEN [ok |-> FALSE, data |-> <<>>, err |-> dec.err]
        ELSE IF kd.err # "nil" THEN [ok |-> FALSE, data |-> <<>>, err |-> kd.err]
        ELSE IF key.err # "nil" THEN [ok |-> FALSE, data |-> <<>>, err |-> key.err]
        ELSE IF sig.err # "nil" THEN [ok |-> FALSE, data |-> <<>>, err |-> sig.err]
        ELSE IF ~ok THEN [ok |-> FALSE, data |-> <<>>, err |-> "invalid signature"]
        ELSE [ok |-> TRUE, data |-> sig.rest, err |-> "nil"]

\* Verify: (valid, data, err)
Verify(user, signed) ==
    LET dec == DecodeString(signed)
        kd  == DecodeString(user.PublicKey)
        key == Unmarshal(kd.raw)
        sig == Unmarshal(dec.raw)
    IN  IF dec.err # "nil" THEN [ok |-> FALSE, data |-> <<>>, err |-> dec.err]
        ELSE IF kd.err # "nil" THEN [ok |-> FALSE, data |-> <<>>, err |-> kd.err]
        ELSE IF key.err # "nil" THEN [ok |-> FALSE, data |-> <<>>, err |-> key.err]
        ELSE IF sig.err # "nil" THEN [ok |-> FALSE, data |-> <<>>, err |-> sig.err]
        ELSE [ok   |-> EcdsaVerify(key.val[1], key.val[2], Sum512(sig.rest),
                                   sig.val[1], sig.val[2]),
              data |-> sig.rest, err |-> "nil"]

-----------------------------------------------------------------------------
(* User: shared secrets (user.go) *)

\* asn1.Unmarshal(rawPubKey, &pubKey) with pubKey an ecdsa.PublicKey: the
\* structure's first field is the elliptic.Curve interface, a type asn1
\* has no decoding for, so a well-formed SEQUENCE is refused as well
UnmarshalPublicKey(raw) ==
    IF Len(raw) >= 2 /\ raw[1] = DerHdr /\ DOMAIN raw[2] = {"der"}
    THEN [err |-> "asn1: structure error: unknown Go type: elliptic.Curve",
          X |-> Nil, Y |-> Nil]
    ELSE [err |-> "asn1: structure error", X |-> Nil, Y |-> Nil]

\* curve.ScalarMult(x, y, d): d times the point (x, y); the point with both
\* coordinates zero stands for the point at infinity
ScalarMult(x, y, d) ==
    IF DOMAIN x = {"px"} /\ DOMAIN y = {"py"}
    THEN <<[px |-> (x.px * d) % CurveN], [py |-> (y.py * d) % CurveN]>>
    ELSE <<[px |-> 0], [py |-> 0]>>

\* sha512.Sum512 applied 10000 times
HashRounds(secret) == [rounds |-> Sum512(secret)]

\* makeSharedSecret: the symmetric key of this user's private signing key
\* and the other user's public key
makeSharedSecret(this, other) ==
    LET kd  == DecodeString(other.PublicKey)
        pub == UnmarshalPublicKey(kd.raw)
    IN  IF kd.err # "nil" THEN [err |-> kd.err, secret |-> Nil]
        ELSE IF pub.err # "nil" THEN [err |-> pub.err, secret |-> Nil]
        ELSE IF IsNil(this.keys)
        THEN [err |-> "panic: nil pointer dereference", secret |-> Nil]
        ELSE LET pt == ScalarMult(pub.X, pub.Y, this.keys.SigningKey.D)
             IN  IF pt[1].px = 0 /\ pt[2].py = 0
                 THEN [err |-> "Invalid point", secret |-> Nil]
                 ELSE [err |-> "nil", secret |-> HashRounds(pt[1])]

\* EncryptShared, with nonce the outcome of utils.RandomBytes
EncryptShared(this, data, sign, other, nonce) ==
    LET key == makeSharedSecret(this, other)
    IN  IF key.err # "nil" THEN [err |-> key.err, str |-> <<>>, signed |-> <<>>]
        ELSE IF nonce = <<>>
        THEN [err |-> "Nonce generation failed", str |-> <<>>, signed |-> <<>>]
        ELSE LET raw == Seal(key.secret, data, nonce, data, sign)
             IN  [err |-> "nil", str |-> EncodeToString(nonce \o raw),
                  signed |-> EncodeToString(sign)]

\* DecryptShared
DecryptShared(this, encrypted, signed, other) ==
    LET rawEncrypted == DecodeString(encrypted)
        rawSigned    == DecodeString(signed)
        key          == makeSharedSecret(this, other)
    IN  IF rawEncrypted.err # "nil"
        THEN [err |-> rawEncrypted.err, data |-> <<>>, signed |-> <<>>]
        ELSE IF rawSigned.err # "nil"
        THEN [err |-> rawSigned.err, data |-> <<>>, signed |-> <<>>]
        ELSE IF key.err # "nil" THEN [err |-> key.err, data |-> <<>>, signed |-> <<>>]
        ELSE IF Len(rawEncrypted.raw) < NonceSize
        THEN [err |-> "Data too short", data |-> <<>>, signed |-> <<>>]
        ELSE LET opened == Open(key.secret, SliceFrom(rawEncrypted.raw, NonceSize),
                                SliceTo(rawEncrypted.raw, NonceSize),
                                SliceFrom(rawEncrypted.raw, NonceSize), rawSigned.raw)
             IN  IF opened.err # "nil"
                 THEN [err |-> opened.err, data |-> <<>>, signed |-> <<>>]
                 ELSE [err |-> "nil", data |-> opened.data, signed |-> rawSigned.raw]

-----------------------------------------------------------------------------
(* User.Can (user.go) and the EntryView it reads (entry.go) *)

\* ValidPermissions is the set of allowed permissions characters
ValidPermissions == <<"r", "w", "d">>

\* strings.Contains(s, string(p)) for a character p
Contains(s, p) == \E i \in 1..Len(s) : s[i] = p

\* getAuthority, getUser: the users the view's foreign keys name, as the
\* database holds them
getAuthority(entry) == Related(entry.AuthorityId)

getUser(entry) == Related(entry.UserId)

\* the permissions are used whatever Verify says of the signature, as long
\* as it returns no error
Authorize_ErrOnly(entry) ==
    LET v == Verify(getAuthority(entry), entry.Permissions)
    IN  [ok |-> v.err = "nil", raw |-> v.data]

\* the signature check that opens Can
Authorize(entry) ==
    LET v == Verify(getAuthority(entry), entry.Permissions)
    IN  [ok |-> v.ok /\ v.err = "nil", raw |-> v.data]

\* no check of the granted characters
PermissionsValid_Skip(permissions) == TRUE

\* the first loop of Can: every granted character is a valid one
PermissionsValid(permissions) ==
    \A i \in 1..Len(permissions) : Contains(ValidPermissions, permissions[i])

\* the wildcard without the test that something is granted
Wildcard_NoLength(query, permissions) == query = <<"*">>

\* the test for the special query "*"
Wildcard(query, permissions) == query = <<"*">> /\ Len(permissions) > 0

\* the loop requiring every character of the query to be granted
RECURSIVE QueryLoop_All(_, _, _)
QueryLoop_All(query, i, permissions) ==
    IF i > Len(query) THEN Len(query) > 0
    ELSE IF ~Contains(ValidPermissions, query[i]) THEN FALSE
    ELSE IF ~Contains(permissions, query[i]) THEN FALSE
    ELSE QueryLoop_All(query, i + 1, permissions)

\* the second loop of Can, from the i-th character of the query on
RECURSIVE QueryLoop(_, _, _)
QueryLoop(query, i, permissions) ==
    IF i > Len(query) THEN FALSE
    ELSE IF ~Contains(ValidPermissions, query[i]) THEN FALSE
    ELSE IF Contains(permissions, query[i]) THEN TRUE
    ELSE QueryLoop(query, i + 1, permissions)

\* Can: whether the user has at least one of the queried permissions
Can(user, query, entry) ==
    LET a == Authorize(entry)
        permissions == String(a.raw)
    IN  IF ~a.ok THEN FALSE
        ELSE IF ~PermissionsValid(permissions) THEN FALSE
        ELSE IF Wildcard(query, permissions) THEN TRUE
        ELSE QueryLoop(query, 1, permissions)

-----------------------------------------------------------------------------
(* EntryView: the read accessors (entry.go) *)

\* time.Time.UnmarshalText: the text "t" stands for a well-formed RFC 3339
\* time, any other text is an error
UnmarshalText(data) ==
    IF String(data) = <<"t">> THEN "nil" ELSE "parsing time: cannot parse"

\* json.Unmarshal into an interface{}: "{}" is an object, "1" a number, any
\* other text is an error
JsonUnmarshal(data) ==
    IF String(data) = <<"{", "}">> THEN [err |-> "nil", kind |-> "object"]
    ELSE IF String(data) = <<"1">> THEN [err |-> "nil", kind |-> "number"]
    ELSE [err |-> "invalid character", kind |-> "none"]

\* the body the string accessors share: the check of the viewer's own
\* permission, then the decryption with the viewer's key
ReadString(entry, query, field, denied) ==
    IF Can(getUser(entry), query, entry)
    THEN LET dec == Decrypt(getUser(entry), field)
         IN  IF dec.err # "nil" THEN [err |-> dec.err, data |-> <<>>]
             ELSE [err |-> "nil", data |-> dec.data]
    ELSE [err |-> denied, data |-> <<>>]

ReadGroup(entry) == ReadString(entry, <<"*">>, entry.Group, "Group read permission denied")

ReadIcon(entry) == ReadString(entry, <<"*">>, entry.Icon, "Icon read permission denied")

ReadTitle(entry) == ReadString(entry, <<"*">>, entry.Title, "Title read permission denied")

\* ReadUsername asking for any permission instead of read
ReadUsername_AnyPermission(entry) ==
    ReadString(entry, <<"*">>, entry.Username, "Username read permission denied")

ReadUsername(entry) ==
    ReadString(entry, <<"r">>, entry.Username, "Username read permission denied")

ReadPassword(entry) ==
    ReadString(entry, <<"r">>, entry.Password, "Password read permission denied")

ReadUrl(entry) == ReadString(entry, <<"r">>, entry.Url, "URL read permission denied")

ReadComment(entry) ==
    ReadString(entry, <<"r">>, entry.Comment, "Comment read permission denied")

\* the tail of ReadExpiry: the decrypted text is parsed as a time
ParseExpiry(got) ==
    IF got.err # "nil" THEN [err |-> got.err, data |-> <<>>]
    ELSE IF UnmarshalText(got.data) # "nil"
    THEN [err |-> UnmarshalText(got.data), data |-> <<>>]
    ELSE [err |-> "nil", data |-> got.data]

ReadExpiry(entry) ==
    ParseExpiry(ReadString(entry, <<"r">>, entry.Expiry,
                           "Expiry date read permission denied"))

\* the tail of ReadExtras: the decrypted text is parsed as JSON
ParseExtras(got) ==
    IF got.err # "nil" THEN [err |-> got.err, data |-> <<>>]
    ELSE IF JsonUnmarshal(got.data).err # "nil"
    THEN [err |-> JsonUnmarshal(got.data).err, data |-> <<>>]
    ELSE [err |-> "nil", data |-> got.data]

ReadExtras(entry) ==
    ParseExtras(ReadString(entry, <<"r">>, entry.Extras,
                           "Comment read permission denied"))

\* ReadUserdata: no permission is asked; the decoded value is asserted to be
\* an object
ReadUserdata(entry) ==
    LET dec == Decrypt(getUser(entry), entry.Userdata)
    IN  IF dec.err # "nil" THEN [err |-> dec.err, data |-> <<>>]
        ELSE IF JsonUnmarshal(dec.data).err # "nil"
        THEN [err |-> JsonUnmarshal(dec.data).err, data |-> <<>>]
        ELSE IF JsonUnmarshal(dec.data).kind # "object"
        THEN [err |-> "panic", data |-> <<>>]
        ELSE [err |-> "nil", data |-> dec.data]

FieldNames ==
    {"Group", "Icon", "Title", "Username", "Password", "Url", "Comment",
     "Expiry", "Extras", "Userdata"}

\* the accessor of a field
Read(field, entry) ==
    CASE field = "Group" -> ReadGroup(entry)
      [] field = "Icon" -> ReadIcon(entry)
      [] field = "Title" -> ReadTitle(entry)
      [] field = "Username" -> ReadUsername(entry)
      [] field = "Password" -> ReadPassword(entry)
      [] field = "Url" -> ReadUrl(entry)
      [] field = "Comment" -> ReadComment(entry)
      [] field = "Expiry" -> ReadExpiry(entry)
      [] field = "Extras" -> ReadExtras(entry)
      [] field = "Userdata" -> ReadUserdata(entry)

-----------------------------------------------------------------------------
(* EntryView: the write accessors (entry.go) *)

\* time.Time.Format(time.RFC3339): the one time of the model is written "t"
Format(expiry) == Bytes(<<expiry>>)

\* json.Marshal of a value: an object, a number, or a value JSON has no
\* form for (a channel, a function)
JsonMarshal(value) ==
    CASE value = "object" -> [err |-> "nil", bytes |-> Bytes(<<"{", "}">>)]
      [] value = "number" -> [err |-> "nil", bytes |-> Bytes(<<"1">>)]
      [] OTHER -> [err |-> "json: unsupported type", bytes |-> <<>>]

\* the body the writers share: the check of the viewer's write permission,
\* the encryption with the viewer's key, the assignment of the field
WriteBytes(entry, name, bytes, nonce, denied) ==
    IF Can(getUser(entry), <<"w">>, entry)
    THEN LET enc == Encrypt(getUser(entry), bytes, nonce)
         IN  IF enc.err # "nil" THEN [err |-> enc.err, entry |-> entry]
             ELSE [err |-> "nil", entry |-> [entry EXCEPT ![name] = enc.str]]
    ELSE [err |-> denied, entry |-> entry]

WriteGroup(entry, group, nonce) ==
    WriteBytes(entry, "Group", Bytes(group), nonce, "Group write permission denied")

WriteIcon(entry, icon, nonce) ==
    WriteBytes(entry, "Icon", Bytes(icon), nonce, "Icon write permission denied")

WriteTitle(entry, title, nonce) ==
    WriteBytes(entry, "Title", Bytes(title), nonce, "Title write permission denied")

\* WriteUsername asking for the read permission instead of write
WriteUsername_ReadPermission(entry, username, nonce) ==
    IF Can(getUser(entry), <<"r">>, entry)
    THEN LET enc == Encrypt(getUser(entry), Bytes(username), nonce)
         IN  IF enc.err # "nil" THEN [err |-> enc.err, entry |-> entry]
             ELSE [err |-> "nil", entry |-> [entry EXCEPT !.Username = enc.str]]
    ELSE [err |-> "Username write permission denied", entry |-> entry]

WriteUsername(entry, username, nonce) ==
    WriteBytes(entry, "Username", Bytes(username), nonce,
               "Username write permission denied")

WritePassword(entry, password, nonce) ==
    WriteBytes(entry, "Password", Bytes(password), nonce,
               "Password write permission denied")

WriteUrl(entry, url, nonce) ==
    WriteBytes(entry, "Url", Bytes(url), nonce, "URL write permission denied")

WriteComment(entry, comment, nonce) ==
    WriteBytes(entry, "Comment", Bytes(comment), nonce,
               "Comment write permission denied")

WriteExpiry(entry, expiry, nonce) ==
    WriteBytes(entry, "Expiry", Format(expiry), nonce,
               "Expiry date write permission denied")

\* WriteExtras: the value is marshalled once the permission is known
WriteExtras(entry, extras, nonce) ==
    IF ~Can(getUser(entry), <<"w">>, entry)
    THEN [err |-> "Extras write permission denied", entry |-> entry]
    ELSE IF JsonMarshal(extras).err # "nil"
    THEN [err |-> JsonMarshal(extras).err, entry |-> entry]
    ELSE WriteBytes(entry, "Extras", JsonMarshal(extras).bytes, nonce,
                    "Extras write permission denied")

\* WriteUserdata: no permission is asked
WriteUserdata(entry, userdata, nonce) ==
    IF JsonMarshal(userdata).err # "nil"
    THEN [err |-> JsonMarshal(userdata).err, entry |-> entry]
    ELSE LET enc == Encrypt(getUser(entry), JsonMarshal(userdata).bytes, nonce)
         IN  IF enc.err # "nil" THEN [err |-> enc.err, entry |-> entry]
             ELSE [err |-> "nil", entry |-> [entry EXCEPT !.Userdata = enc.str]]

\* the values a writer of the field takes: strings, a time, or any value
ValuesOf(field) ==
    CASE field = "Expiry" -> {"t"}
      [] field \in {"Extras", "Userdata"} -> {"object", "number", "chan"}
      [] OTHER -> {<<>>, <<"a">>, <<"b">>}

\* the writer of a field
Write(field, entry, value, nonce) ==
    CASE field = "Group" -> WriteGroup(entry, value, nonce)
      [] field = "Icon" -> WriteIcon(entry, value, nonce)
      [] field = "Title" -> WriteTitle(entry, value, nonce)
      [] field = "Username" -> WriteUsername(entry, value, nonce)
      [] field = "Password" -> WritePassword(entry, value, nonce)
      [] field = "Url" -> WriteUrl(entry, value, nonce)
      [] field = "Comment" -> WriteComment(entry, value, nonce)
      [] field = "Expiry" -> WriteExpiry(entry, value, nonce)
      [] field = "Extras" -> WriteExtras(entry, value, nonce)
      [] field = "Userdata" -> WriteUserdata(entry, value, nonce)

-----------------------------------------------------------------------------
(* The Entry of the first design (entry.go, lines 1-502) and the package's  *)
(* first Encrypt and Decrypt, which take the key as an argument             *)

\* aes.NewCipher(key) accepts the key: the model's keys are names, and the
\* empty name is a key of a length AES does not take
KeyOk(key) == key # ""

\* Encrypt(data, key), with iv the outcome of getRandom (<<>> when it fails)
CryptoEncrypt(data, key, iv) ==
    IF ~KeyOk(key) THEN [err |-> "crypto/aes: invalid key size", str |-> <<>>]
    ELSE IF iv = <<>> THEN [err |-> "Random number generation failed", str |-> <<>>]
    ELSE [err |-> "nil", str |-> EncodeToString(iv \o CounterCrypt(key, iv, data))]

\* Decrypt(data, key): slicing a text shorter than the block size panics
CryptoDecrypt(data, key) ==
    LET dec == DecodeString(data)
    IN  IF ~KeyOk(key) THEN [err |-> "crypto/aes: invalid key size", data |-> <<>>]
        ELSE IF dec.err # "nil" THEN [err |-> dec.err, data |-> <<>>]
        ELSE IF Len(dec.raw) < BlockSize THEN [err |-> "panic", data |-> <<>>]
        ELSE [err  |-> "nil",
              data |-> CounterCrypt(key, SliceTo(dec.raw, BlockSize),
                                    SliceFrom(dec.raw, BlockSize))]

\* json.Unmarshal of a grants text and the assertion that it is an array:
\* "[]" is the empty array, "[g]" an array of one grant, "{}" an object
GrantsJson(data) ==
    CASE String(data) = <<"[", "]">> -> [err |-> "nil", items |-> <<>>]
      [] String(data) = <<"[", "g", "]">> -> [err |-> "nil", items |-> <<"g">>]
      [] String(data) = <<"{", "}">> -> [err |-> "panic", items |-> <<>>]
      [] OTHER -> [err |-> "invalid character", items |-> <<>>]

\* decryptGrants: the result of append is dropped for every item, so the
\* list returned is the nil list whatever the text holds
decryptGrants(encryptedGrants, key) ==
    LET dec == CryptoDecrypt(encryptedGrants, key)
    IN  IF dec.err # "nil" THEN [err |-> dec.err, grants |-> <<>>]
        ELSE IF GrantsJson(dec.data).err # "nil"
        THEN [err |-> GrantsJson(dec.data).err, grants |-> <<>>]
        ELSE [err |-> "nil", grants |-> <<>>]

\* canWrite: false when the grants do not decrypt; true when the loop over
\* the grants meets no grant for the user, and the list is the nil list
canWrite(e, user, key) ==
    LET d == decryptGrants(e.write, key)
    IN  IF d.err = "panic" THEN [panic |-> TRUE, ok |-> FALSE]
        ELSE IF d.err # "nil" THEN [panic |-> FALSE, ok |-> FALSE]
        ELSE [panic |-> FALSE,
              ok    |-> \A i \in 1..Len(d.grants) : d.grants[i] # user]

\* the statement  if !Contains(e.modified, name) { append(e.modified, name) }
\* the slice that append returns is not assigned: the list stays as it was
NoteModified(modified, name) == modified

\* the body the writers of the first design share
EntryWrite(e, user, key, name, bytes, iv, denied) ==
    IF canWrite(e, user, key).panic THEN [err |-> "panic", e |-> e]
    ELSE IF canWrite(e, user, key).ok
    THEN LET enc == CryptoEncrypt(bytes, key, iv)
         IN  IF enc.err # "nil" THEN [err |-> enc.err, e |-> e]
             ELSE [err |-> "nil",
                   e   |-> [e EXCEPT ![name] = enc.str,
                                     !.modified = NoteModified(e.modified, name)]]
    ELSE [err |-> denied, e |-> e]

EntryWriteGroup(e, user, key, group, iv) ==
    EntryWrite(e, user, key, "group", Bytes(group), iv, "group write permission denied")

EntryWriteTitle(e, user, key, title, iv) ==
    EntryWrite(e, user, key, "title", Bytes(title), iv, "title write permission denied")

\* WriteUserdata of the first design: no permission is asked
EntryWriteUserdata(e, user, key, userdata, iv) ==
    IF JsonMarshal(userdata).err # "nil"
    THEN [err |-> JsonMarshal(userdata).err, e |-> e]
    ELSE LET enc == CryptoEncrypt(JsonMarshal(userdata).bytes, key, iv)
         IN  IF enc.err # "nil" THEN [err |-> enc.err, e |-> e]
             ELSE [err |-> "nil",
                   e   |-> [e EXCEPT !.userdata = enc.str,
                                     !.modified = NoteModified(e.modified, "userdata")]]

-----------------------------------------------------------------------------
(* The change procedure (OUTLINE.md): commit, the mailboxes, replay        *)

\* most writes made to the views of the change procedure
MaxWrites == 2

QueueUsers == {"alice", "bob", "carol"}

\* the users who modify entries
Modifiers == {"alice", "carol"}

EntryIds == {"E1", "E2"}

\* the users who may write an entry: both modifiers may write E1, alice alone E2
Writers == [e \in EntryIds |-> IF e = "E1" THEN Modifiers ELSE {"alice"}]

QueueFields == {"title", "username"}

\* the values users write: every write writes a value no earlier write
\* wrote, the next of this list
ValueNames == <<"v1", "v2", "v3", "v4">>

NewValue == ValueNames[cq.writes + 1]

\* the secret two users share: the same whichever of the two derives it
PairSecret(a, b) == {a, b}

\* the changed fields of a view: the field values under the names in the
\* modified set
Delta(fields, modified) == [f \in modified |-> fields[f]]

\* a ChangeEnvelope: the changed fields sealed under the secret of sender
\* and recipient, with the sender's signed assertion as authenticated data
ChangeEnvelope(entryId, recipient, sender, delta) ==
    [entryId |-> entryId, recipientUserId |-> recipient, senderUserId |-> sender,
     payload |-> [secret |-> PairSecret(sender, recipient), assertion |-> sender,
                  fields |-> delta]]

\* no field
NoFields == [f \in {} |-> ""]

\* a payload that no longer authenticates
Garbled == [secret |-> {}, assertion |-> "", fields |-> NoFields]

\* the recipient opens an envelope: the secret is derived from the sender
\* named on the envelope, and the assertion must be the sender's
OpenEnvelope(env, recipient) ==
    IF /\ env.payload.secret = PairSecret(env.senderUserId, recipient)
       /\ env.payload.assertion = env.senderUserId
    THEN [err |-> "nil", fields |-> env.payload.fields]
    ELSE [err |-> "DecryptionError", fields |-> NoFields]

\* the fields of a and then of b, b's value where both have one
Fold(a, b) ==
    [f \in (DOMAIN a) \cup (DOMAIN b) |-> IF f \in DOMAIN b THEN b[f] ELSE a[f]]

\* the replacement is the newest envelope as it is
Merge_Newest(old, env) == env

\* the envelope that replaces old: the newest envelope, with the fields of
\* old that it does not change itself
Merge(old, env) ==
    [env EXCEPT !.payload.fields = Fold(old.payload.fields, env.payload.fields)]

SameKey(a, b) ==
    a.entryId = b.entryId /\ a.recipientUserId = b.recipientUserId

\* enqueue without dedup
Enqueue_Append(box, env) == Append(box, env)

\* enqueue with dedup: an envelope pending for the same entry and recipient
\* is replaced, else the envelope is added
Enqueue(box, env) ==
    IF \E i \in 1..Len(box) : SameKey(box[i], env)
    THEN [i \in 1..Len(box) |->
             IF SameKey(box[i], env) THEN Merge(box[i], env) ELSE box[i]]
    ELSE Append(box, env)

\* the view of a recipient after the envelopes of box, from the i-th on, are
\* replayed into it: an envelope that opens is applied, one that does not is
\* left out
RECURSIVE ReplayInto(_, _, _, _)
ReplayInto(mine, box, i, recipient) ==
    IF i > Len(box) THEN mine
    ELSE LET got == OpenEnvelope(box[i], recipient)
             e   == box[i].entryId
         IN  ReplayInto(IF got.err = "nil"
                        THEN [mine EXCEPT ![e] = Fold(mine[e], got.fields)]
                        ELSE mine,
                        box, i + 1, recipient)

\* the entries whose envelopes replay drops and reports
Dropped(box, recipient) ==
    {box[i].entryId : i \in {j \in 1..Len(box) :
                                 OpenEnvelope(box[j], recipient).err # "nil"}}

InitQueue ==
    [views    |-> [u \in QueueUsers |-> [e \in EntryIds |-> [f \in QueueFields |-> "v0"]]],
     modified |-> [u \in QueueUsers |-> [e \in EntryIds |-> {}]],
     mailbox  |-> [u \in QueueUsers |-> << >>],
     since    |-> [u \in QueueUsers |-> [e \in EntryIds |-> NoFields]],
     reported |-> [u \in QueueUsers |-> {}],
     damaged  |-> [u \in QueueUsers |-> {}],
     writes   |-> 0]

-----------------------------------------------------------------------------
(* The password change procedure (OUTLINE.md, lines 16-23 and 41-50) *)

\* the user who changes their password, and a user who does not
RekeyUser == "alice"

RekeyPasswords == {"pw1", "pw2", "pw3"}

RekeyTexts == {"t1", "t2"}

\* the keys of a session: a function of the password and the stored salts
DeriveKeys(password, salts) == [password |-> password, salts |-> salts]

NoKeys == [password |-> "", salts |-> ""]

\* a stored record: a field of a view or a queued envelope encrypted under
\* key, or a grant signed under key
SealWith(keys, owner, kind, text) ==
    [owner |-> owner, kind |-> kind, key |-> keys, text |-> text]

\* decrypting (or verifying) a record with keys: the text when keys are the
\* record's, an error with any other
OpenWith(keys, record) ==
    IF record.key = keys /\ keys # NoKeys
    THEN [err |-> "nil", text |-> record.text]
    ELSE [err |-> "DecryptionError", text |-> ""]

\* the stored records: two fields, a queued envelope and a grant of the
\* user, and a field of another user
RecordKinds ==
    [f1 |-> "field", f2 |-> "field", q1 |-> "envelope", g1 |-> "grant", x1 |-> "field"]

RecordIds == DOMAIN RecordKinds

RecordOwner(id) == IF id = "x1" THEN "bob" ELSE RekeyUser

\* the records the migration evaluates as the user's
Owned(store) == {id \in DOMAIN store : store[id].owner = RekeyUser}

\* a record keeps its key
Reencrypt_Keep(record, cached, new) ==
    [err |-> OpenWith(cached, record).err, record |-> record]

\* a record decrypted with the cached key and encrypted again (a grant:
\* signed again) with the new one
Reencrypt(record, cached, new) ==
    LET opened == OpenWith(cached, record)
    IN  IF opened.err # "nil"
        THEN [err |-> opened.err, record |-> record]
        ELSE [err |-> "nil",
              record |-> SealWith(new, record.owner, record.kind, opened.text)]

\* the staged records take the place of the stored ones
SwapIn(store, staged) ==
    [id \in DOMAIN store |-> IF id \in DOMAIN staged THEN staged[id] ELSE store[id]]

\* a rollback that keeps what was staged
Rollback_Partial(store, staged) == SwapIn(store, staged)

\* on a failure the staged records are dropped: the store is as it was
Rollback(store, staged) == store

NoStaged == [id \in {} |-> NoKeys]

InitRekey ==
    [password |-> "pw1",
     salts    |-> "salts-alice",
     store    |-> [id \in RecordIds |->
                      SealWith(DeriveKeys(IF RecordOwner(id) = RekeyUser
                                          THEN "pw1" ELSE "pw-bob",
                                          IF RecordOwner(id) = RekeyUser
                                          THEN "salts-alice" ELSE "salts-bob"),
                               RecordOwner(id), RecordKinds[id], "t0")],
     phase    |-> "idle",
     cached   |-> NoKeys,
     new      |-> [password |-> "", keys |-> NoKeys],
     staged   |-> NoStaged]

\* the keys of the user's session
CurrentKeys == DeriveKeys(rk.password, rk.salts)

-----------------------------------------------------------------------------
(* State *)

\* blob:   the base64 text in hand, the output of the last Encrypt or Sign,
\*         possibly altered since
\* origin: how blob was made: the operation, its user and input, and what
\*         was altered afterwards
\* last:   the operation that ran last, with its inputs and what it returned
\* view:   the EntryView the accessors act on
\* users:  the rows of the users table
\* ent:    an Entry of the first design, with its modified list
\* written: the fields of ent written with success since its last commit
\* cq:     the change procedure: every user's view of every entry, the
\*         modified sets, the mailboxes, what the last replay reported, and
\*         the number of writes made; since and damaged record, for every
\*         recipient, the fields committed by others and the entries whose
\*         envelope was damaged since the recipient's previous replay

\* mu:     the accessors of one entry run by two goroutines: the design of
\*         the entry, its readers-writer mutex, the write permission of the
\*         caller, and where each goroutine is in its accessor

\* views:  the view of entry E1 that each user holds, the zero view for a
\*         user who holds none

PlainChars == {"a", "b"}

Plaintexts == {Bytes(s) : s \in SeqsUpTo(PlainChars, MaxLen)}

\* the outcomes of utils.RandomBytes(gcm.NonceSize()); <<>> is its failure
Nonces == SeqsOfLen({Plain("0"), Plain("1")}, NonceSize)

\* a byte with one bit flipped: no byte that any operation produces
Flip(x) == [flip |-> x]

\* most calls of accessors in a run
MaxCalls == 3

Goroutines == {1, 2}

\* Entry has a sync.RWMutex (entry.go, line 51); EntryView has none
Designs == {"Entry", "EntryView"}

Accessors == {"WriteGroup", "ReadUsername"}

Idle == [pc |-> "idle", op |-> "", stale |-> FALSE]

InitMutex ==
    [design |-> "none", readers |-> 0, writer |-> FALSE, canWrite |-> TRUE,
     calls |-> 0, at |-> [g \in Goroutines |-> Idle]]

\* sync.RWMutex: Lock waits until no reader and no writer holds the mutex,
\* RLock until no writer does
CanLock(m, op) ==
    IF op = "WriteGroup" THEN m.readers = 0 /\ ~m.writer ELSE ~m.writer

Locked(m, op) ==
    IF op = "WriteGroup" THEN [m EXCEPT !.writer = TRUE]
    ELSE [m EXCEPT !.readers = @ + 1]

\* Unlock and RUnlock
Unlocked(m, op) ==
    IF op = "WriteGroup" THEN [m EXCEPT !.writer = FALSE]
    ELSE [m EXCEPT !.readers = @ - 1]

ZeroView ==
    [EntryId |-> "", UserId |-> 0, AuthorityId |-> 0, Permissions |-> <<>>,
     Group |-> <<>>, Icon |-> <<>>, Title |-> <<>>, Username |-> <<>>,
     Password |-> <<>>, Url |-> <<>>, Comment |-> <<>>, Expiry |-> <<>>,
     Extras |-> <<>>, Userdata |-> <<>>]

\* the zero value of the Entry of the first design
ZeroEntry == [id |-> "", modified |-> <<>>, write |-> <<>>, group |-> <<>>,
              title |-> <<>>, userdata |-> <<>>]

\* the view of entry E1 held by the user with row userId, with permissions
\* signed by signer, who is named as the authority
IssuedView(userId, signer, perms) ==
    [ZeroView EXCEPT !.EntryId = "E1", !.UserId = userId,
                     !.AuthorityId = signer.Id,
                     !.Permissions = Sign(signer, perms, 1).str]

\* the view every entry has from the start: admin holds d, signed by admin
AdminView == IssuedView(Admin.Id, Admin, Bytes(<<"d">>))

InitViews ==
    [n \in {"admin", "alice", "bob"} |-> IF n = "admin" THEN AdminView ELSE ZeroView]

\* a view after the user gone is deleted: the user's own view is deleted
\* with them; permissions the user signed, if they verify, are signed again
\* by admin, who becomes the authority
Reissue(v, gone) ==
    LET old == Verify(gone, v.Permissions)
    IN  IF v.UserId = gone.Id THEN ZeroView
        ELSE IF v.AuthorityId = gone.Id /\ old.ok /\ old.err = "nil"
        THEN [v EXCEPT !.AuthorityId = Admin.Id,
                       !.Permissions = Sign(Admin, old.data, 1).str]
        ELSE v

NoOrigin == [op |-> "none", user |-> "", data |-> <<>>, tamper |-> "none"]

\* a record of an operation and its results; the fields an operation does
\* not have keep their zero value
Result(op, user, err, data) ==
    [op |-> op, user |-> user.Name, keyed |-> ~IsNil(user.keys), err |-> err,
     data |-> data, ok |-> FALSE, query |-> <<>>]

NoResult == Result("none", EmptyUser, "nil", <<>>)

Init ==
    /\ blob = <<>>
    /\ origin = NoOrigin
    /\ last = NoResult
    /\ view = ZeroView
    /\ users = DB
    /\ ent = ZeroEntry
    /\ written = {}
    /\ cq = InitQueue
    /\ rk = InitRekey
    /\ mu = InitMutex
    /\ views = InitViews

-----------------------------------------------------------------------------
(* Symmetric encryption: the operations *)

\* a run follows one text: Encrypt is called when none is in hand
DoEncrypt(user, data, nonce) ==
    LET enc == Encrypt(user, data, nonce)
    IN  /\ origin.op = "none" /\ last.op = "none"
        /\ blob' = enc.str
        /\ origin' = [op |-> IF enc.err = "nil" THEN "Encrypt" ELSE "none",
                      user |-> user.Name, data |-> data, tamper |-> "none"]
        /\ last' = Result("Encrypt", user, enc.err, data)
        /\ UNCHANGED <<view, users, ext, mu, views>>

\* Alterations are made to the text as the operation returned it, before
\* anything reads it.

\* the text stops being base64: one character is replaced by one outside
\* the alphabet
CorruptEncoding(i) ==
    /\ origin.op # "none" /\ origin.tamper = "none" /\ last.op = origin.op
    /\ i \in 1..Len(blob)
    /\ blob' = [blob EXCEPT ![i] = BadChar]
    /\ origin' = [origin EXCEPT !.tamper = "base64"]
    /\ UNCHANGED <<last, view, users, ext, mu, views>>

\* the text is cut to its first n characters
Truncate(n) ==
    /\ origin.op # "none" /\ origin.tamper = "none" /\ last.op = origin.op
    /\ n \in 0..(Len(blob) - 1)
    /\ blob' = SliceTo(blob, n)
    /\ origin' = [origin EXCEPT !.tamper = IF n < NonceSize THEN "short" ELSE "truncated"]
    /\ UNCHANGED <<last, view, users, ext, mu, views>>

\* one encoded byte of a ciphertext is changed: in the nonce, the body or
\* the tag
FlipCipherByte(i) ==
    /\ origin.op = "Encrypt" /\ origin.tamper = "none" /\ last.op = origin.op
    /\ i \in 1..Len(blob)
    /\ blob' = [blob EXCEPT ![i] = [c64 |-> Flip(blob[i].c64)]]
    /\ origin' = [origin EXCEPT !.tamper =
                     IF i <= NonceSize THEN "nonce"
                     ELSE IF i > Len(blob) - TagSize THEN "tag" ELSE "body"]
    /\ UNCHANGED <<last, view, users, ext, mu, views>>

DoDecrypt(user) ==
    LET dec == Decrypt(user, blob)
    IN  /\ origin.op \in {"Encrypt", "none"} /\ last.op = origin.op
        /\ last' = Result("Decrypt", user, dec.err, dec.data)
        /\ UNCHANGED <<blob, origin, view, users, ext, mu, views>>

NextCrypt ==
    \/ \E user \in UserObjects, data \in Plaintexts, nonce \in Nonces \cup {<<>>} :
          DoEncrypt(user, data, nonce)
    \/ \E i \in 1..(NonceSize + 2 * MaxLen + TagSize) : CorruptEncoding(i)
    \/ \E n \in 0..(NonceSize + 2 * MaxLen + TagSize) : Truncate(n)
    \/ \E i \in 1..(NonceSize + 2 * MaxLen + TagSize) : FlipCipherByte(i)
    \/ \E user \in UserObjects : DoDecrypt(user)

SpecCrypt == Init /\ [][NextCrypt]_vars

-----------------------------------------------------------------------------
(* Signatures: the operations *)

PermChars == {"r", "w", "d", "x"}

\* the data that is signed: permission strings, well-formed or not
SignData == {Bytes(s) : s \in SeqsUpTo(PermChars, MaxLen)}

\* the randomness ecdsa.Sign draws
SignRandoms == {1, 2}

\* the length of the DER signature in front of the data
SigLen == Len(Marshal(Nil, Nil))

DoSign(user, data, k) ==
    LET sgn == Sign(user, data, k)
    IN  /\ origin.op = "none" /\ last.op = "none"
        /\ blob' = sgn.str
        /\ origin' = [op |-> IF sgn.err = "nil" THEN "Sign" ELSE "none",
                      user |-> user.Name, data |-> data, tamper |-> "none"]
        /\ last' = Result("Sign", user, sgn.err, data)
        /\ UNCHANGED <<view, users, ext, mu, views>>

\* a bit of the DER framing of the signature is flipped: it no longer parses
BreakSignatureEncoding(i) ==
    /\ origin.op = "Sign" /\ origin.tamper = "none" /\ last.op = origin.op
    /\ i \in 1..SigLen
    /\ blob' = [blob EXCEPT ![i] = [c64 |-> Flip(blob[i].c64)]]
    /\ origin' = [origin EXCEPT !.tamper = "der"]
    /\ UNCHANGED <<last, view, users, ext, mu, views>>

\* a byte with a bit of R or of S flipped: the two integers of a signature
\* still parse as two integers
AlterInts(x, which) ==
    IF DOMAIN x # {"der"} THEN Flip(x)
    ELSE IF which = "r" THEN [der |-> <<[r |-> 0], x.der[2]>>]
    ELSE [der |-> <<x.der[1], [x.der[2] EXCEPT !.sd = 0]>>]

\* a bit of R or of S is flipped
AlterSignature(which) ==
    /\ origin.op = "Sign" /\ origin.tamper = "none" /\ last.op = origin.op
    /\ blob' = [blob EXCEPT ![SigLen] = [c64 |-> AlterInts(blob[SigLen].c64, which)]]
    /\ origin' = [origin EXCEPT !.tamper = "sig"]
    /\ UNCHANGED <<last, view, users, ext, mu, views>>

\* the signature is replaced by the one another user makes of the same data
ReplaceSignature(other, k) ==
    /\ origin.op = "Sign" /\ origin.tamper = "none" /\ last.op = origin.op
    /\ other.Name # origin.user
    /\ blob' = SliceTo(Sign(other, origin.data, k).str, SigLen) \o SliceFrom(blob, SigLen)
    /\ origin' = [origin EXCEPT !.tamper = "othersig"]
    /\ UNCHANGED <<last, view, users, ext, mu, views>>

\* the data after the signature is replaced by other data
ReplaceData(data) ==
    /\ origin.op = "Sign" /\ origin.tamper = "none" /\ last.op = origin.op
    /\ data # origin.data
    /\ blob' = SliceTo(blob, SigLen) \o EncodeToString(data)
    /\ origin' = [origin EXCEPT !.tamper = "data"]
    /\ UNCHANGED <<last, view, users, ext, mu, views>>

\* a bit of one byte of the data is flipped
FlipDataByte(i) ==
    /\ origin.op = "Sign" /\ origin.tamper = "none" /\ last.op = origin.op
    /\ i \in (SigLen + 1)..Len(blob)
    /\ blob' = [blob EXCEPT ![i] = [c64 |-> Flip(blob[i].c64)]]
    /\ origin' = [origin EXCEPT !.tamper = "data"]
    /\ UNCHANGED <<last, view, users, ext, mu, views>>

DoVerify(user) ==
    LET ver == Verify(user, blob)
    IN  /\ origin.op \in {"Sign", "none"} /\ last.op = origin.op
        /\ last' = [Result("Verify", user, ver.err, ver.data) EXCEPT !.ok = ver.ok]
        /\ UNCHANGED <<blob, origin, view, users, ext, mu, views>>

NextSign ==
    \/ \E user \in UserObjects, data \in SignData, k \in SignRandoms :
          DoSign(user, data, k)
    \/ \E i \in 1..(SigLen + MaxLen) : CorruptEncoding(i)
    \/ \E n \in 0..(SigLen + MaxLen) : Truncate(n)
    \/ \E i \in 1..SigLen : BreakSignatureEncoding(i)
    \/ \E which \in {"r", "s"} : AlterSignature(which)
    \/ \E other \in SessionUsers, k \in SignRandoms : ReplaceSignature(other, k)
    \/ \E data \in SignData : ReplaceData(data)
    \/ \E i \in 1..(SigLen + MaxLen) : FlipDataByte(i)
    \/ \E user \in UserObjects \cup {EmptyUser} : DoVerify(user)

SpecSign == Init /\ [][NextSign]_vars

-----------------------------------------------------------------------------
(* Permissions and entry views: the operations *)

\* longest query handed to Can
MaxQueryLen == 2

QueryChars == {"r", "w", "d", "?"}

Queries == {<<"*">>} \cup SeqsUpTo(QueryChars, MaxQueryLen)

\* what becomes of a signed text before it is stored in a view
Damage(s, how) ==
    CASE how = "none" -> s
      [] how = "base64" -> [s EXCEPT ![1] = BadChar]
      [] how = "sig" -> [s EXCEPT ![SigLen] = [c64 |-> AlterInts(s[SigLen].c64, "r")]]

\* the text every field of a new view holds: the field's name's worth of
\* plaintext, encrypted by the owner in session
FieldText(owner) ==
    Encrypt(owner, Bytes(<<"a">>), [i \in 1..NonceSize |-> Plain("0")]).str

\* A caller builds the view of owner on entry E1: the permissions are perms
\* signed by signer, possibly damaged, and the view names authority as the
\* user who granted them.
NewEntryView(owner, authorityId, signer, perms, how) ==
    LET signed == Damage(Sign(signer, perms, 1).str, how)
        text   == FieldText(owner)
    IN  /\ view = ZeroView /\ last.op = "none"
        /\ view' = [EntryId |-> "E1", UserId |-> owner.Id,
                    AuthorityId |-> authorityId, Permissions |-> signed,
                    Group |-> text, Icon |-> text, Title |-> text,
                    Username |-> text, Password |-> text, Url |-> text,
                    Comment |-> text, Expiry |-> text, Extras |-> text,
                    Userdata |-> text]
        /\ blob' = signed
        /\ origin' = [op |-> "Sign", user |-> signer.Name, data |-> perms,
                      tamper |-> how]
        /\ UNCHANGED <<last, users, ext, mu, views>>

\* the viewer asks Can about their own view, as the accessors do
DoCan(query) ==
    /\ view # ZeroView /\ last.op = "none"
    /\ last' = [Result("Can", getUser(view), "nil", <<>>) EXCEPT
                   !.ok = Can(getUser(view), query, view), !.query = query]
    /\ UNCHANGED <<blob, origin, view, users, ext, mu, views>>

DoRead(field) ==
    LET res == Read(field, view)
    IN  /\ view # ZeroView /\ last.op = "none"
        /\ last' = [Result("Read", getUser(view), res.err, res.data) EXCEPT
                       !.query = <<field>>]
        /\ UNCHANGED <<blob, origin, view, users, ext, mu, views>>

\* the row identifiers a view can name as its authority: two users and one
\* identifier no row has
AuthorityIds == {Admin.Id, Alice.Id, 0}

\* the users who sign permissions, and the users whose views are built
Signers == {Admin, Alice}

Owners == {Alice, Bob}

NextCan ==
    \/ \E owner \in Owners, authorityId \in AuthorityIds, signer \in Signers,
          perms \in SignData, how \in {"none", "base64", "sig"} :
          NewEntryView(owner, authorityId, signer, perms, how)
    \/ \E query \in Queries : DoCan(query)

SpecCan == Init /\ [][NextCan]_vars

NextEntry ==
    \/ \E owner \in Owners, authorityId \in AuthorityIds, signer \in Signers,
          perms \in SignData, how \in {"none", "base64", "sig"} :
          NewEntryView(owner, authorityId, signer, perms, how)
    \/ \E field \in FieldNames : DoRead(field)

SpecEntry == Init /\ [][NextEntry]_vars

\* the viewer writes a field of their view
DoWrite(field, value, nonce) ==
    LET wr == Write(field, view, value, nonce)
    IN  /\ view # ZeroView /\ last.op = "none"
        /\ view' = wr.entry
        /\ last' = [Result("Write", getUser(view), wr.err, <<>>) EXCEPT
                       !.query = <<field>>]
        /\ UNCHANGED <<blob, origin, users, ext, mu, views>>

NextWrite ==
    \/ \E owner \in Owners, authorityId \in AuthorityIds, signer \in Signers,
          perms \in SignData, how \in {"none", "base64", "sig"} :
          NewEntryView(owner, authorityId, signer, perms, how)
    \/ \E field \in FieldNames :
          \E value \in ValuesOf(field), nonce \in Nonces \cup {<<>>} :
             DoWrite(field, value, nonce)

SpecWrite == Init /\ [][NextWrite]_vars

-----------------------------------------------------------------------------
(* The Entry of the first design: the operations *)

\* the keys callers hand to the first Encrypt and Decrypt
CryptoKeys == {"k1", "k2", ""}

\* the outcomes of getRandom for the initialisation vector
Ivs == {[i \in 1..BlockSize |-> Plain("0")], <<>>}

GrantTexts == {<<"[", "]">>, <<"[", "g", "]">>, <<"{", "}">>, <<"x">>}

\* an entry is created: its write grants are encrypted under key
NewEntry(key, grants) ==
    /\ ent = ZeroEntry /\ last.op = "none"
    /\ KeyOk(key)
    /\ ent' = [ZeroEntry EXCEPT
                  !.id = "E1",
                  !.write = CryptoEncrypt(Bytes(grants), key,
                                          [i \in 1..BlockSize |-> Plain("0")]).str]
    /\ UNCHANGED <<blob, origin, last, view, users, written, cq, rk, mu, views>>

\* a user writes a field of the entry
DoEntryWrite(name, user, key, value, iv) ==
    LET wr == CASE name = "group" -> EntryWriteGroup(ent, user, key, value, iv)
                [] name = "title" -> EntryWriteTitle(ent, user, key, value, iv)
                [] name = "userdata" -> EntryWriteUserdata(ent, user, key, "object", iv)
    IN  /\ ent'= wr.e
        /\ written' = IF wr.err = "nil" THEN written \cup {name} ELSE written
        /\ last' = [Result("EntryWrite", EmptyUser, wr.err, <<>>) EXCEPT
                       !.user = user, !.query = <<name>>]
        /\ UNCHANGED <<blob, origin, view, users, cq, rk, mu, views>>

NextModified ==
    \/ \E key \in CryptoKeys, grants \in GrantTexts : NewEntry(key, grants)
    \/ \E name \in {"group", "title", "userdata"}, user \in {"alice", "g"},
          key \in CryptoKeys, value \in {<<"a">>, <<"b">>}, iv \in Ivs :
          DoEntryWrite(name, user, key, value, iv)

SpecModified == Init /\ [][NextModified]_vars

-----------------------------------------------------------------------------
(* The change procedure: the operations *)

\* a user changes a field of their view of an entry
ChangeField(u, e, f, v) ==
    /\ cq.writes < MaxWrites
    /\ u \in Writers[e]
    /\ cq' = [cq EXCEPT !.views[u][e][f] = v,
                        !.modified[u][e] = @ \cup {f},
                        !.writes = @ + 1]
    /\ last' = Result("ChangeField", EmptyUser, "nil", <<>>)
    /\ UNCHANGED <<blob, origin, view, users, ent, written, rk, mu, views>>

\* a user commits their changes of an entry: an envelope with the changed
\* fields is enqueued for every other user, and the modified set is emptied
Commit(u, e) ==
    LET delta == Delta(cq.views[u][e], cq.modified[u][e])
    IN  /\ cq.modified[u][e] # {}
        /\ cq' = [cq EXCEPT
                     !.mailbox = [r \in QueueUsers |->
                                     IF r = u THEN cq.mailbox[r]
                                     ELSE Enqueue(cq.mailbox[r],
                                                  ChangeEnvelope(e, r, u, delta))],
                     !.since = [r \in QueueUsers |->
                                   IF r = u THEN cq.since[r]
                                   ELSE [cq.since[r] EXCEPT ![e] = Fold(@, delta)]],
                     !.modified[u][e] = {}]
        /\ last' = Result("Commit", EmptyUser, "nil", <<>>)
        /\ UNCHANGED <<blob, origin, view, users, ent, written, rk, mu, views>>

\* the stored payload of a pending envelope is damaged
DamageEnvelope(r, i) ==
    /\ i \in 1..Len(cq.mailbox[r])
    /\ cq.mailbox[r][i].payload # Garbled
    /\ cq' = [cq EXCEPT !.mailbox[r][i].payload = Garbled,
                        !.damaged[r] = @ \cup {cq.mailbox[r][i].entryId}]
    /\ last' = Result("DamageEnvelope", EmptyUser, "nil", <<>>)
    /\ UNCHANGED <<blob, origin, view, users, ent, written, rk, mu, views>>

\* a replay that leaves in the mailbox the envelopes it could not open
Replay_KeepFailed(r) ==
    /\ cq.mailbox[r] # << >>
    /\ cq' = [cq EXCEPT
                 !.views[r] = ReplayInto(cq.views[r], cq.mailbox[r], 1, r),
                 !.reported[r] = Dropped(cq.mailbox[r], r),
                 !.mailbox[r] = SelectSeq(cq.mailbox[r],
                                          LAMBDA env : OpenEnvelope(env, r).err # "nil"),
                 !.damaged[r] = {},
                 !.since[r] = [e \in EntryIds |-> NoFields]]
    /\ last' = [Result("Replay", EmptyUser, "nil", <<>>) EXCEPT
                   !.user = r,
                   !.data = [box |-> cq.mailbox[r], before |-> cq.views[r],
                             since |-> cq.since[r], damaged |-> cq.damaged[r]]]
    /\ UNCHANGED <<blob, origin, view, users, ent, written, rk, mu, views>>

\* a user logs in and replays their mailbox; last keeps the mailbox, the
\* view and the changes since the previous replay as they were before
Replay(r) ==
    /\ cq.mailbox[r] # << >>
    /\ cq' = [cq EXCEPT
                 !.views[r] = ReplayInto(cq.views[r], cq.mailbox[r], 1, r),
                 !.reported[r] = Dropped(cq.mailbox[r], r),
                 !.mailbox[r] = << >>,
                 !.damaged[r] = {},
                 !.since[r] = [e \in EntryIds |-> NoFields]]
    /\ last' = [Result("Replay", EmptyUser, "nil", <<>>) EXCEPT
                   !.user = r,
                   !.data = [box |-> cq.mailbox[r], before |-> cq.views[r],
                             since |-> cq.since[r], damaged |-> cq.damaged[r]]]
    /\ UNCHANGED <<blob, origin, view, users, ent, written, rk, mu, views>>

NextQueue ==
    \/ \E u \in Modifiers, e \in EntryIds, f \in QueueFields :
          ChangeField(u, e, f, NewValue)
    \/ \E u \in Modifiers, e \in EntryIds : Commit(u, e)
    \/ \E r \in QueueUsers, i \in 1..Cardinality(EntryIds) : DamageEnvelope(r, i)
    \/ \E r \in QueueUsers : Replay(r)

SpecQueue == Init /\ [][NextQueue]_vars

-----------------------------------------------------------------------------
(* The password change procedure: the operations *)

\* the user writes a field of theirs, under the keys of their session; the
\* migration holds the user's records, so no write happens during it
RekeyWrite(id, text) ==
    /\ rk.phase = "idle"
    /\ RecordOwner(id) = RekeyUser /\ RecordKinds[id] = "field"
    /\ rk' = [rk EXCEPT !.store[id] = SealWith(CurrentKeys, RekeyUser, "field", text)]
    /\ last' = Result("RekeyWrite", EmptyUser, "nil", <<>>)
    /\ UNCHANGED <<blob, origin, view, users, ent, written, cq, mu, views>>

\* steps 1 and 2: the current keys are cached and the new ones derived from
\* the new password and the stored salts
BeginRekey(password) ==
    /\ rk.phase = "idle"
    /\ password # rk.password
    /\ rk' = [rk EXCEPT !.phase = "migrating",
                        !.cached = CurrentKeys,
                        !.new = [password |-> password,
                                 keys |-> DeriveKeys(password, rk.salts)],
                        !.staged = NoStaged]
    /\ last' = Result("BeginRekey", EmptyUser, "nil", <<>>)
    /\ UNCHANGED <<blob, origin, view, users, ent, written, cq, mu, views>>

\* steps 3 to 5 for one record of the user: the record is staged under the
\* new keys
StageRecord(id) ==
    LET moved == Reencrypt(rk.store[id], rk.cached, rk.new.keys)
    IN  /\ rk.phase = "migrating"
        /\ id \in Owned(rk.store) \ DOMAIN rk.staged
        /\ moved.err = "nil"
        /\ rk' = [rk EXCEPT !.staged =
                     [i \in DOMAIN rk.staged \cup {id} |->
                         IF i = id THEN moved.record ELSE rk.staged[i]]]
        /\ last' = Result("StageRecord", EmptyUser, "nil", <<>>)
        /\ UNCHANGED <<blob, origin, view, users, ent, written, cq, mu, views>>

\* the migration of a record fails (forced, or its re-encryption returned an
\* error): the procedure rolls back to the cached keys and reports
FailRekey(id) ==
    /\ rk.phase = "migrating"
    /\ id \in Owned(rk.store) \ DOMAIN rk.staged
    /\ rk' = [rk EXCEPT !.store = Rollback(rk.store, rk.staged),
                        !.phase = "idle",
                        !.cached = NoKeys,
                        !.new = [password |-> "", keys |-> NoKeys],
                        !.staged = NoStaged]
    /\ last' = [Result("ChangePassword", EmptyUser, "rekey failed", <<>>) EXCEPT
                   !.data = [before |-> rk.store, old |-> rk.cached,
                             new |-> rk.new.keys, salts |-> rk.salts,
                             staged |-> DOMAIN rk.staged]]
    /\ UNCHANGED <<blob, origin, view, users, ent, written, cq, mu, views>>

\* every record of the user is staged: the staged records are swapped in,
\* the new keys become the session's, and step 6 discards the cached keys
FinishRekey ==
    /\ rk.phase = "migrating"
    /\ DOMAIN rk.staged = Owned(rk.store)
    /\ rk' = [rk EXCEPT !.store = SwapIn(rk.store, rk.staged),
                        !.password = rk.new.password,
                        !.phase = "idle",
                        !.cached = NoKeys,
                        !.new = [password |-> "", keys |-> NoKeys],
                        !.staged = NoStaged]
    /\ last' = [Result("ChangePassword", EmptyUser, "nil", <<>>) EXCEPT
                   !.data = [before |-> rk.store, old |-> rk.cached,
                             new |-> rk.new.keys, salts |-> rk.salts,
                             staged |-> DOMAIN rk.staged]]
    /\ UNCHANGED <<blob, origin, view, users, ent, written, cq, mu, views>>

NextRekey ==
    \/ \E id \in RecordIds, text \in RekeyTexts : RekeyWrite(id, text)
    \/ \E password \in RekeyPasswords : BeginRekey(password)
    \/ \E id \in RecordIds : StageRecord(id)
    \/ \E id \in RecordIds : FailRekey(id)
    \/ FinishRekey

SpecRekey == Init /\ [][NextRekey]_vars

-----------------------------------------------------------------------------
(* Shared secrets: the operations *)

\* the signed assertions handed to EncryptShared
Assertions == {Bytes(<<"s">>), Bytes(<<"t">>)}

\* the texts that may take the place of the one EncryptShared returned
SharedTexts == {EncodeToString(n) : n \in Nonces} \cup {<<BadChar>>, <<>>}

\* a run makes one derivation or follows one text

\* both users derive the secret of the pair
DoMakeSharedSecret(a, b) ==
    LET mine   == makeSharedSecret(a, b)
        theirs == makeSharedSecret(b, a)
    IN  /\ last.op = "none"
        /\ last' = [Result("makeSharedSecret", a, mine.err, <<>>) EXCEPT
                       !.data = [other |-> b.Name, otherKeyed |-> ~IsNil(b.keys),
                                 secret |-> mine.secret, back |-> theirs]]
        /\ UNCHANGED <<blob, origin, view, users, ext, mu, views>>

DoEncryptShared(a, b, data, sign, nonce) ==
    LET enc == EncryptShared(a, data, sign, b, nonce)
    IN  /\ last.op = "none"
        /\ blob' = enc.str
        /\ origin' = [op |-> IF enc.err = "nil" THEN "EncryptShared" ELSE "none",
                      user |-> a.Name,
                      data |-> [data |-> data, sign |-> sign, signed |-> enc.signed,
                                other |-> b.Name],
                      tamper |-> "none"]
        /\ last' = [Result("EncryptShared", a, enc.err, data) EXCEPT
                       !.data = [other |-> b.Name, otherKeyed |-> ~IsNil(b.keys),
                                 nonce |-> nonce, data |-> data, sign |-> sign]]
        /\ UNCHANGED <<view, users, ext, mu, views>>

\* another text takes the place of the one EncryptShared returned
Substitute(text) ==
    /\ last.op = "EncryptShared" /\ origin.tamper = "none"
    /\ text # blob
    /\ blob' = text
    /\ origin' = [origin EXCEPT !.tamper = "replaced"]
    /\ UNCHANGED <<last, view, users, ext, mu, views>>

\* DecryptShared of the text in hand, with an assertion
DoDecryptShared(c, other, sign) ==
    LET dec == DecryptShared(c, blob, EncodeToString(sign), other)
    IN  /\ last.op = "EncryptShared"
        /\ last' = [Result("DecryptShared", c, dec.err, dec.data) EXCEPT
                       !.data = [other |-> other.Name, sign |-> sign,
                                 data |-> dec.data, signed |-> dec.signed]]
        /\ UNCHANGED <<blob, origin, view, users, ext, mu, views>>

NextShared ==
    \/ \E a \in UserObjects, b \in UserObjects : DoMakeSharedSecret(a, b)
    \/ \E a \in UserObjects, b \in UserObjects, data \in Plaintexts,
          sign \in Assertions, nonce \in Nonces \cup {<<>>} :
          DoEncryptShared(a, b, data, sign, nonce)
    \/ \E text \in SharedTexts : Substitute(text)
    \/ \E c \in SessionUsers, other \in SessionUsers, sign \in Assertions :
          DoDecryptShared(c, other, sign)

SpecShared == Init /\ [][NextShared]_vars

-----------------------------------------------------------------------------
(* Key derivation: the operations *)

KeyPasswords == {"secret", "password", "other"}

\* the outcomes of the random source for a salt
SaltChars == {"0", "1", "2", "3", "4", "5", "6"}

Salts == {Bytes(<<c, d>>) : c \in SaltChars, d \in SaltChars}

\* a user is created: the keys are derived from the password and the new
\* salts, the public key is stored, and the row is added to the table
DoNewUser(password, cryptoSalt, signingSalt) ==
    LET user == NewUser(4, "carol", password, cryptoSalt, signingSalt)
    IN  /\ last.op = "none"
        /\ users' = users \cup {Row(user)}
        /\ last' = [Result("NewUser", user, "nil", <<>>) EXCEPT
                       !.data = [raw |-> SetBytes(Pbkdf2(password, signingSalt, "curve")),
                                 key |-> user.keys.SigningKey,
                                 PublicKey |-> user.PublicKey]]
        /\ UNCHANGED <<blob, origin, view, ext, mu, views>>

\* MakeKeys for the stored row of the user and a password
DoMakeKeys(password) ==
    LET row  == Related(4)
        made == MakeKeys(row, password)
    IN  /\ last.op = "NewUser"
        /\ last' = [Result("MakeKeys", [row EXCEPT !.keys = made.keys], made.err, <<>>)
                       EXCEPT !.data = [raw |-> SetBytes(Pbkdf2(password,
                                                  GetSigningSalt(row).raw, "curve")),
                                        key |-> made.keys.SigningKey,
                                        PublicKey |-> row.PublicKey]]
        /\ UNCHANGED <<blob, origin, view, users, ext, mu, views>>

NextKeys ==
    \/ \E password \in KeyPasswords, cryptoSalt \in Salts, signingSalt \in Salts :
          DoNewUser(password, cryptoSalt, signingSalt)
    \/ \E password \in KeyPasswords : DoMakeKeys(password)

SpecKeys == Init /\ [][NextKeys]_vars

-----------------------------------------------------------------------------
(* The users table: the operations *)

\* NewUser is called at most this many times in a run
MaxCreates == 2

UserNames == {"alice", "carol"}

NewPasswords == {"password"}

\* the outcomes of the random source for a salt of a new user
NewSalts == {Bytes(<<"1", "1">>), Bytes(<<"2", "5">>), <<>>}

\* what a caller holds of the user NewUser returned for a name: the object,
\* whether the name was unused when it was made, whether it was dropped
NoHandle == [held |-> FALSE, user |-> EmptyUser, unused |-> FALSE, dropped |-> FALSE]

Handles == IF origin.op = "NewUser" THEN origin.data.held ELSE [n \in UserNames |-> NoHandle]

\* the number of calls of NewUser so far
Creates == IF origin.op = "NewUser" THEN origin.data.calls ELSE 0

\* the random source gives values no row holds
Fresh(table, password, cryptoSalt, signingSalt) ==
    \/ cryptoSalt = <<>>
    \/ signingSalt = <<>>
    \/ LET made == NewUser(0, "", password, cryptoSalt, signingSalt)
       IN  \A u \in table : /\ u.CryptoSalt # made.CryptoSalt
                            /\ u.SigningSalt # made.SigningSalt
                            /\ u.PublicKey # made.PublicKey

DoCreateUser(name, password, cryptoSalt, signingSalt) ==
    LET made == NewUserIn(users, name, password, cryptoSalt, signingSalt)
    IN  /\ Creates < MaxCreates
        /\ Fresh(users, password, cryptoSalt, signingSalt)
        /\ users' = made.table
        /\ origin' = [op |-> "NewUser", user |-> "", tamper |-> "none",
                      data |-> [calls |-> Creates + 1,
                                held  |-> IF made.err # "nil" THEN Handles
                                          ELSE [Handles EXCEPT ![name] =
                                                  [held |-> TRUE, user |-> made.user,
                                                   unused |-> \A u \in users : u.Name # name,
                                                   dropped |-> FALSE]]]]
        /\ last' = [Result("NewUser", made.user, made.err, <<>>) EXCEPT
                       !.data = [name |-> name, user |-> made.user]]
        /\ UNCHANGED <<blob, view, ext, mu, views>>

DoLoadUser(name) ==
    LET loaded == LoadUser(users, name)
    IN  /\ last.op # "LoadUser"
        /\ last' = [Result("LoadUser", loaded.user, loaded.err, <<>>) EXCEPT
                       !.data = [name |-> name, user |-> loaded.user]]
        /\ UNCHANGED <<blob, origin, view, users, ext, mu, views>>

\* the caller drops the user it holds for a name
DoDrop(name) ==
    /\ Handles[name].held /\ ~Handles[name].dropped
    /\ users' = Drop(users, Handles[name].user)
    /\ origin' = [origin EXCEPT !.data.held[name].dropped = TRUE]
    /\ last' = [Result("Drop", Handles[name].user, "nil", <<>>) EXCEPT
                   !.data = [name |-> name, user |-> Handles[name].user]]
    /\ UNCHANGED <<blob, view, ext, mu, views>>

NextUsers ==
    \/ \E name \in UserNames, password \in NewPasswords,
          cryptoSalt \in NewSalts, signingSalt \in NewSalts :
          DoCreateUser(name, password, cryptoSalt, signingSalt)
    \/ \E name \in UserNames : DoLoadUser(name)
    \/ \E name \in UserNames : DoDrop(name)

SpecUsers == Init /\ [][NextUsers]_vars

-----------------------------------------------------------------------------
(* Error: the operations *)

\* an error is wrapped at most this many times
MaxWraps == 2

\* the contents NewError is given first: strings and errors of other packages
Contents == {[str |-> "A test error"], [foreign |-> "assert.AnError general error for testing"],
             [foreign |-> "illegal base64 data"]}

\* the optional user argument: absent, a *User, a string, another value
UserArgs == {Nil, [name |-> "test.user"], [str |-> "test.user"], [other |-> 0]}

Callers == {[ok |-> TRUE, file |-> "error_test.go", line |-> 28],
            [ok |-> TRUE, file |-> "user.go", line |-> 182],
            [ok |-> FALSE, file |-> "", line |-> 0]}

DoNewError(content, user, caller) ==
    /\ last.op = "none"
    /\ last' = [Result("NewError", EmptyUser, "nil", <<>>) EXCEPT
                   !.data = [error |-> NewError(content, user, caller),
                             content |-> content, user |-> user, caller |-> caller,
                             wraps |-> 0]]
    /\ UNCHANGED <<blob, origin, view, users, ext, mu, views>>

\* the error in hand is wrapped
DoWrapError(user, caller) ==
    /\ last.op = "NewError"
    /\ last.data.wraps < MaxWraps
    /\ last' = [last EXCEPT
                   !.data = [error |-> NewError(last.data.error, user, caller),
                             content |-> last.data.error, user |-> user,
                             caller |-> caller, wraps |-> last.data.wraps + 1]]
    /\ UNCHANGED <<blob, origin, view, users, ext, mu, views>>

NextError ==
    \/ \E content \in Contents, user \in UserArgs, caller \in Callers :
          DoNewError(content, user, caller)
    \/ \E user \in UserArgs, caller \in Callers : DoWrapError(user, caller)

SpecError == Init /\ [][NextError]_vars

-----------------------------------------------------------------------------
(* Grant: the operations *)

\* entry identifiers and user names, as sequences of characters; some are
\* prefixes of others
GrantIds == {<<"a">>, <<"a", "b">>, <<"e">>}

GrantUsers == {<<"b">>, <<"b", "c">>, <<"c">>}

GrantSigners == {<<"s">>, <<"c", "s">>}

DoNewGrant(id, user, signer) ==
    /\ last.op = "none"
    /\ last' = [Result("NewGrant", EmptyUser, "nil", <<>>) EXCEPT
                   !.data = [grant |-> NewGrant(id, user, signer, [key |-> signer])]]
    /\ UNCHANGED <<blob, origin, view, users, ext, mu, views>>

\* the signature of the grant in hand is presented in a grant of the same
\* signer for an entry and a user
DoPresent(id, user) ==
    LET made  == last.data.grant
        other == [made EXCEPT !.Id = id, !.User = user]
    IN  /\ last.op = "NewGrant"
        /\ last' = [Result("Present", EmptyUser, "nil", <<>>) EXCEPT
                       !.data = [grant |-> made, other |-> other,
                                 verify |-> GrantVerify(other),
                                 for |-> GrantFor(other, id, user)]]
        /\ UNCHANGED <<blob, origin, view, users, ext, mu, views>>

NextGrant ==
    \/ \E id \in GrantIds, user \in GrantUsers, signer \in GrantSigners :
          DoNewGrant(id, user, signer)
    \/ \E id \in GrantIds, user \in GrantUsers : DoPresent(id, user)

SpecGrant == Init /\ [][NextGrant]_vars

-----------------------------------------------------------------------------
(* Permissions granted by the holder of a view: the operations *)

\* the permissions a holder signs for another user
DelegatedPerms == {Bytes(<<"r">>), Bytes(<<"r", "w", "d">>)}

\* The holder of the view in hand, in session, signs perms for grantee and
\* the view of grantee on the same entry is built, naming the holder as
\* its authority; origin keeps the holder's own view.
Delegate(signer, grantee, perms) ==
    LET signed == Sign(signer, perms, 1).str
        text   == FieldText(grantee)
    IN  /\ view # ZeroView /\ last.op = "none" /\ origin.op = "Sign"
        /\ "authority" \notin DOMAIN origin
        /\ signer.Id = view.UserId /\ grantee.Id # view.UserId
        /\ view' = [EntryId |-> view.EntryId, UserId |-> grantee.Id,
                    AuthorityId |-> signer.Id, Permissions |-> signed,
                    Group |-> text, Icon |-> text, Title |-> text,
                    Username |-> text, Password |-> text, Url |-> text,
                    Comment |-> text, Expiry |-> text, Extras |-> text,
                    Userdata |-> text]
        /\ blob' = signed
        /\ origin' = [op |-> "Sign", user |-> signer.Name, data |-> perms,
                      tamper |-> "none", authority |-> view]
        /\ UNCHANGED <<last, users, ext, mu, views>>

NextDelegate ==
    \/ \E owner \in Owners, authorityId \in AuthorityIds, signer \in Signers,
          perms \in SignData, how \in {"none", "base64", "sig"} :
          NewEntryView(owner, authorityId, signer, perms, how)
    \/ \E signer \in Owners, grantee \in Owners, perms \in DelegatedPerms :
          Delegate(signer, grantee, perms)
    \/ \E query \in Queries : DoCan(query)

SpecDelegate == Init /\ [][NextDelegate]_vars

-----------------------------------------------------------------------------
(* The change procedure without failures, under fair scheduling *)

NextConverge ==
    \/ \E u \in Modifiers, e \in EntryIds, f \in QueueFields :
          ChangeField(u, e, f, NewValue)
    \/ \E u \in Modifiers, e \in EntryIds : Commit(u, e)
    \/ \E r \in QueueUsers : Replay(r)

\* every user who has changes to commit commits them, and every user with a
\* pending envelope logs in and replays
FairConverge ==
    /\ \A u \in Modifiers, e \in EntryIds : WF_vars(Commit(u, e))
    /\ \A r \in QueueUsers : WF_vars(Replay(r))

SpecConverge == Init /\ [][NextConverge]_vars /\ FairConverge

-----------------------------------------------------------------------------
(* The accessors of an entry run by two goroutines *)

\* the entry is of the first design or an EntryView
Construct(design) ==
    /\ mu.design = "none"
    /\ mu' = [mu EXCEPT !.design = design]
    /\ UNCHANGED <<blob, origin, last, view, users, ext, views>>

\* a goroutine calls an accessor: of Entry, its first statement takes the
\* mutex; of EntryView, the body starts at once
Begin(g, op) ==
    /\ mu.design # "none" /\ mu.at[g].pc = "idle" /\ mu.calls < MaxCalls
    /\ mu.design = "Entry" => CanLock(mu, op)
    /\ mu' = [(IF mu.design = "Entry" THEN Locked(mu, op) ELSE mu) EXCEPT
                 !.at[g] = [pc |-> "in", op |-> op, stale |-> FALSE],
                 !.calls = @ + 1]
    /\ UNCHANGED <<blob, origin, last, view, users, ext, views>>

\* the permission check: canWrite or canRead of Entry, Can of EntryView
Check(g) ==
    /\ mu.at[g].pc = "in"
    /\ mu' = [mu EXCEPT !.at[g].pc =
                 IF mu.at[g].op = "WriteGroup" /\ ~mu.canWrite THEN "denied"
                 ELSE "allowed"]
    /\ UNCHANGED <<blob, origin, last, view, users, ext, views>>

\* Encrypt of the written value, or Decrypt of the read one
Crypt(g, ok) ==
    /\ mu.at[g].pc = "allowed"
    /\ mu' = [mu EXCEPT !.at[g].pc = IF ok THEN "ready" ELSE "failed"]
    /\ UNCHANGED <<blob, origin, last, view, users, ext, views>>

\* the field is assigned; stale records that the permission checked is
\* gone by now
Store(g) ==
    /\ mu.at[g].pc = "ready" /\ mu.at[g].op = "WriteGroup"
    /\ mu' = [mu EXCEPT !.at[g].pc = "stored", !.at[g].stale = ~mu.canWrite]
    /\ UNCHANGED <<blob, origin, last, view, users, ext, views>>

\* the accessor returns, and the deferred unlock of Entry runs
Return(g) ==
    /\ \/ mu.at[g].pc \in {"denied", "failed", "stored"}
       \/ mu.at[g].pc = "ready" /\ mu.at[g].op = "ReadUsername"
    /\ mu' = [(IF mu.design = "Entry" THEN Unlocked(mu, mu.at[g].op) ELSE mu)
                 EXCEPT !.at[g] = Idle]
    /\ UNCHANGED <<blob, origin, last, view, users, ext, views>>

\* the permissions of the view are replaced by ones without w: Permissions
\* is a field of EntryView that any holder of the view assigns
Revoke ==
    /\ mu.design = "EntryView" /\ mu.canWrite
    /\ mu' = [mu EXCEPT !.canWrite = FALSE]
    /\ UNCHANGED <<blob, origin, last, view, users, ext, views>>

NextMutex ==
    \/ \E design \in Designs : Construct(design)
    \/ \E g \in Goroutines, op \in Accessors : Begin(g, op)
    \/ \E g \in Goroutines : Check(g)
    \/ \E g \in Goroutines, ok \in BOOLEAN : Crypt(g, ok)
    \/ \E g \in Goroutines : Store(g)
    \/ \E g \in Goroutines : Return(g)
    \/ Revoke

SpecMutex == Init /\ [][NextMutex]_vars

-----------------------------------------------------------------------------
(* The views of an entry and the deletion of users: the operations *)

IssuedPerms == {Bytes(<<"r">>), Bytes(<<"d">>), Bytes(<<"r", "w", "d">>), Bytes(<<"x">>)}

\* a user in session who holds a view of the entry signs perms for grantee,
\* whose view names the signer as its authority
Issue(signer, grantee, perms) ==
    /\ views[signer.Name] # ZeroView
    /\ signer.Id # grantee.Id
    /\ Row(signer) \in users /\ Row(grantee) \in users
    /\ views' = [views EXCEPT ![grantee.Name] = IssuedView(grantee.Id, signer, perms)]
    /\ last' = Result("Issue", signer, "nil", <<>>)
    /\ UNCHANGED <<blob, origin, view, users, ext, mu>>

\* a user is deleted: their row is dropped and the views are re-issued
DeleteUser(gone) ==
    /\ Row(gone) \in users
    /\ users' = Drop(users, gone)
    /\ views' = [n \in DOMAIN views |-> Reissue(views[n], gone)]
    /\ last' = Result("DeleteUser", gone, "nil", <<>>)
    /\ UNCHANGED <<blob, origin, view, ext, mu>>

NextAdmin ==
    \/ \E signer \in SessionUsers, grantee \in SessionUsers, perms \in IssuedPerms :
          Issue(signer, grantee, perms)
    \/ \E gone \in Owners : DeleteUser(gone)

SpecAdmin == Init /\ [][NextAdmin]_vars

-----------------------------------------------------------------------------
(* Properties: symmetric encryption *)

\* the last operation read the text of origin, made by origin's user
ReadBack(op, made) == last.op = op /\ origin.op = made

\* C1: for every user with session keys and every plaintext, the empty one
\* included, Decrypt of what Encrypt returned gives the plaintext back and
\* no error.
C1_RoundTrip ==
    (ReadBack("Decrypt", "Encrypt") /\ origin.tamper = "none"
        /\ last.user = origin.user /\ last.keyed)
    => (last.err = "nil" /\ last.data = origin.data)

\* C26: the text Encrypt returns is the base64 of the nonce, the ciphertext
\* and the tag and nothing else: decoded, its length is the nonce size plus
\* the length of the plaintext plus the tag size, and no byte after the nonce
\* is a byte of the plaintext in the clear.
C26_EncryptLayout ==
    last.op = "Encrypt" /\ last.err = "nil" /\ origin.tamper = "none"
    => LET raw == DecodeString(blob).raw
       IN  /\ Len(raw) = NonceSize + Len(last.data) + TagSize
           /\ \A i \in (NonceSize + 1)..Len(raw) : ~IsPlain(raw[i])

\* C2: Decrypt returns an error and no plaintext, and does not crash, on
\* text that is not base64, that is shorter than the nonce, whose tag or
\* body was altered, or that another user's key encrypted.
C2_DecryptRejects ==
    (ReadBack("Decrypt", "Encrypt")
        /\ (origin.tamper \in {"base64", "short", "tag", "body"}
            \/ last.user # origin.user))
    => (last.err \notin {"nil", "panic"} /\ last.data = <<>>)

\* C2, its case: the empty plaintext of one user, read by another user who
\* holds session keys, fails the authentication
C2_Witness ==
    /\ ReadBack("Decrypt", "Encrypt")
    /\ origin.tamper = "none" /\ origin.data = <<>>
    /\ last.user # origin.user /\ last.keyed
    /\ last.err = "cipher: message authentication failed"

-----------------------------------------------------------------------------
(* Properties: signatures *)

UserByName(name) ==
    IF \E u \in users : u.Name = name THEN CHOOSE u \in users : u.Name = name
    ELSE EmptyUser

\* base64 of a DER structure of two integers, possibly followed by data
WellFormed(s) ==
    /\ DecodeString(s).err = "nil"
    /\ Unmarshal(DecodeString(s).raw).err = "nil"

\* the operations of a user that use the private keys
KeyedOps == {"Encrypt", "Decrypt", "Sign", "EncryptShared", "DecryptShared"}

\* C28: an operation that uses the private keys, called on a user without
\* session keys, returns an error and does not crash.
C28_NoKeysNoCrash ==
    last.op \in KeyedOps /\ ~last.keyed
    => last.err \notin {"nil", "panic", "panic: nil pointer dereference"}

\* C8: Verify of what Sign returned, under the signer's public key, is valid
\* and returns the signed data; after a change of the data part or of the
\* signature part it is not valid.
C8_SignVerify ==
    (ReadBack("Verify", "Sign") /\ last.user = origin.user)
    => /\ origin.tamper = "none"
          => (last.ok /\ last.err = "nil" /\ last.data = origin.data)
       /\ origin.tamper \in {"der", "sig", "othersig", "data", "short", "truncated"}
          => ~last.ok

\* C8, its case: non-empty data signed, verified under the signer's key
C8_Witness ==
    /\ ReadBack("Verify", "Sign") /\ last.user = origin.user
    /\ origin.tamper = "none" /\ origin.data # <<>>
    /\ last.ok /\ last.data = origin.data

\* C9: Verify returns an error only when the signed text or the stored
\* public key is malformed; a well-formed text whose signature does not
\* match gives valid = false and no error; valid = true never comes with an
\* error.
C9_VerifyErrors ==
    last.op = "Verify"
    => /\ last.err # "nil"
          <=> (~WellFormed(blob) \/ ~WellFormed(UserByName(last.user).PublicKey))
       /\ (origin.op = "Sign" /\ last.user # ""
             /\ (origin.tamper \in {"sig", "data"}
                 \/ (origin.tamper = "none" /\ last.user # origin.user)))
          => (~last.ok /\ last.err = "nil")
       /\ ~(last.ok /\ last.err # "nil")

\* C9, its case: a signature that parses and does not match
C9_Witness ==
    /\ ReadBack("Verify", "Sign") /\ origin.tamper = "sig"
    /\ last.user = origin.user
    /\ ~last.ok /\ last.err = "nil"

-----------------------------------------------------------------------------
(* Properties: permissions *)

\* Can was asked about the view
Asked == last.op = "Can" /\ view # ZeroView

\* the view's permissions are what a user signed, as stored, and the view
\* names that user as its authority
Verified ==
    /\ origin.op = "Sign" /\ origin.tamper = "none"
    /\ getAuthority(view).Name = origin.user

\* the permission string that was signed
Granted == String(origin.data)

ValidChar(c) == c \in {"r", "w", "d"}

AllValid(s) == \A i \in 1..Len(s) : ValidChar(s[i])

\* the two strings have a character in common
Share(s, t) == \E i \in 1..Len(s), j \in 1..Len(t) : s[i] = t[j]

\* C3: on a view whose permissions verify under its authority's key, Can is
\* false for every query, "*" included, when the granted string holds a
\* character outside r, w, d.
C3_InvalidGrant ==
    (Asked /\ Verified /\ ~AllValid(Granted)) => ~last.ok

\* C3, its case: "rx" granted and verified, the query "*" refused
C3_Witness ==
    /\ Asked /\ Verified
    /\ Granted = <<"r", "x">> /\ last.query = <<"*">>
    /\ ~last.ok

\* C4 as stated: on a verified view granting only characters of r, w, d,
\* and for every query other than "*", Can is true exactly when the query
\* and the granted string have a character in common.
C4_AnyQuery ==
    (Asked /\ Verified /\ AllValid(Granted) /\ last.query # <<"*">>)
    => (last.ok <=> Share(last.query, Granted))

\* C4, restated for the queries made of the characters r, w, d only: on a
\* verified view granting only characters of r, w, d, Can is true exactly
\* when the query and the granted string have a character in common,
\* whatever the order of the query's characters.
C4_ValidQuery ==
    (Asked /\ Verified /\ AllValid(Granted) /\ AllValid(last.query))
    => (last.ok <=> Share(last.query, Granted))

\* C4, its case: "r" granted, the query "wr" accepted on its second
\* character
C4_Witness ==
    /\ Asked /\ Verified
    /\ Granted = <<"r">> /\ last.query = <<"w", "r">>
    /\ last.ok

\* C5: on a view whose permissions verify, Can("*") is true exactly when the
\* granted string is not empty and holds only valid characters.
C5_Wildcard ==
    (Asked /\ Verified /\ last.query = <<"*">>)
    => (last.ok <=> (Len(Granted) > 0 /\ AllValid(Granted)))

\* C5, its case: nothing granted, the query "*" refused
C5_Witness ==
    /\ Asked /\ Verified
    /\ Granted = <<>> /\ last.query = <<"*">>
    /\ ~last.ok

\* C6: Can is false for every query holding a character outside r, w, d,
\* whatever is granted, also when another character of the query is
\* granted.
C6_InvalidQuery ==
    (Asked /\ last.query # <<"*">> /\ ~AllValid(last.query)) => ~last.ok

\* C7: Can is false for every query when the permissions do not verify
\* under the authority's key: the stored text is malformed, or the
\* signature is well formed and not valid, as when a user other than the
\* view's authority signed.
C7_Unverified ==
    (Asked /\ ~Verified) => ~last.ok

\* C7, its case: "r" signed by a user who is not the view's authority, the
\* text intact, the query "r" refused
C7_Witness ==
    /\ Asked /\ origin.tamper = "none"
    /\ origin.user = "alice" /\ getAuthority(view).Name = "admin"
    /\ Granted = <<"r">> /\ last.query = <<"r">>
    /\ ~last.ok

-----------------------------------------------------------------------------
(* Properties: entry views *)

SharedFields == {"Group", "Icon", "Title"}

SecretFields == {"Username", "Password", "Url", "Comment", "Expiry", "Extras"}

\* the errors that refuse a read
Denials ==
    {"Group read permission denied", "Icon read permission denied",
     "Title read permission denied", "Username read permission denied",
     "Password read permission denied", "URL read permission denied",
     "Comment read permission denied", "Expiry date read permission denied"}

\* the field the last read asked for
ReadOf(fields) == last.op = "Read" /\ last.query[1] \in fields

\* what Can answers the viewer about their own view
ViewerCan(query) == Can(getUser(view), query, view)

\* C10: a read of a shared field returns plaintext only if Can("*") holds
\* for the viewer on their view, a read of a secret field only if Can("r")
\* holds; a read that Can denies returns a permission error and no
\* plaintext, a read that Can allows is not refused; a read of userdata is
\* never refused for lack of permission.
C10_ReadMatrix ==
    /\ ReadOf(SharedFields)
       => /\ last.err = "nil" => ViewerCan(<<"*">>)
          /\ last.err \in Denials <=> ~ViewerCan(<<"*">>)
    /\ ReadOf(SecretFields)
       => /\ last.err = "nil" => ViewerCan(<<"r">>)
          /\ last.err \in Denials <=> ~ViewerCan(<<"r">>)
    /\ ReadOf({"Userdata"}) => last.err \notin Denials
    /\ (last.op = "Read" /\ last.err \in Denials)
       => (last.err # "nil" /\ last.data = <<>>)

\* C10, its case: the viewer holds "w" only, verified, and the read of the
\* username is refused
C10_Witness ==
    /\ ReadOf({"Username"}) /\ Verified /\ Granted = <<"w">>
    /\ ViewerCan(<<"*">>) /\ ~ViewerCan(<<"r">>)
    /\ last.err = "Username read permission denied" /\ last.data = <<>>

\* the errors that refuse a write
WriteDenials ==
    {"Group write permission denied", "Icon write permission denied",
     "Title write permission denied", "Username write permission denied",
     "Password write permission denied", "URL write permission denied",
     "Comment write permission denied", "Expiry date write permission denied",
     "Extras write permission denied"}

\* a step that writes a field of the view other than userdata
WritesField == last.op = "none" /\ last'.op = "Write" /\ last'.query # <<"Userdata">>

\* C11: a write of a field other than userdata succeeds only if Can("w")
\* holds for the viewer on the view; a write that Can denies returns the
\* permission error, a write that Can allows is not refused; when the write
\* returns an error, denied or failed in encryption, no field of the view
\* changes; a write that succeeds changes the written field only.
C11_WriteGate ==
    [][WritesField
       => /\ last'.err = "nil" => ViewerCan(<<"w">>)
          /\ last'.err \in WriteDenials <=> ~ViewerCan(<<"w">>)
          /\ last'.err # "nil" => view' = view
          /\ \A f \in DOMAIN view : f # last'.query[1] => view'[f] = view[f]]_vars

\* C11, its case: the viewer holds "r" only, verified, and the write of the
\* username is refused
C11_Witness ==
    /\ last.op = "Write" /\ last.query = <<"Username">>
    /\ Verified /\ Granted = <<"r">>
    /\ ViewerCan(<<"r">>) /\ ~ViewerCan(<<"w">>)
    /\ last.err = "Username write permission denied"

-----------------------------------------------------------------------------
(* Properties: the modified list *)

\* C12: after any sequence of writes of an entry since its last commit, the
\* modified list holds exactly the names of the fields written with success,
\* each name once; a write that is denied or fails adds nothing.
C12_ModifiedTracks ==
    /\ {ent.modified[i] : i \in 1..Len(ent.modified)} = written
    /\ Len(ent.modified) = Cardinality(written)

-----------------------------------------------------------------------------
(* Properties: the change procedure *)

\* the envelopes pending for a recipient and an entry
Pending(r, e) == {i \in 1..Len(cq.mailbox[r]) : cq.mailbox[r][i].entryId = e}

\* C13: in every reachable state, whatever the interleaving of commits, a
\* mailbox holds at most one pending envelope for an entry and its
\* recipient, and it holds one exactly when something was committed for
\* that pair since the recipient's last replay: enqueuing for a pair that
\* has a pending envelope replaces it.
C13_OnePending ==
    \A r \in QueueUsers, e \in EntryIds :
        /\ Cardinality(Pending(r, e)) <= 1
        /\ Cardinality(Pending(r, e)) = 1 <=> cq.since[r][e] # NoFields
        /\ \A i \in Pending(r, e) : cq.mailbox[r][i].recipientUserId = r

\* C13, its case: alice and then carol committed changes of E1, and bob's
\* mailbox holds the one envelope of carol
C13_Witness ==
    /\ cq.writes = 2
    /\ cq.views["alice"]["E1"]["title"] = "v1"
    /\ cq.views["carol"]["E1"]["username"] = "v2"
    /\ DOMAIN cq.since["bob"]["E1"] = {"title", "username"}
    /\ Len(cq.mailbox["bob"]) = 1
    /\ cq.mailbox["bob"][1].senderUserId = "carol"

\* the last step was a replay
Replayed == last.op = "Replay"

C15_ReplayDrains ==
    Replayed
    => /\ cq.mailbox[last.user] = << >>
       /\ \A i \in 1..Len(last.data.box) :
             LET env == last.data.box[i]
             IN  IF OpenEnvelope(env, last.user).err = "nil"
                 THEN /\ env.entryId \notin cq.reported[last.user]
                      /\ \A f \in DOMAIN env.payload.fields :
                            cq.views[last.user][env.entryId][f] = env.payload.fields[f]
                 ELSE /\ env.entryId \in cq.reported[last.user]
                      /\ cq.views[last.user][env.entryId]
                            = last.data.before[env.entryId]

\* C15, its case: bob replays two envelopes, one of them damaged
C15_Witness ==
    /\ Replayed /\ last.user = "bob"
    /\ Len(last.data.box) = 2
    /\ cq.reported["bob"] = {"E2"}
    /\ cq.views["bob"]["E1"] # last.data.before["E1"]
    /\ cq.views["bob"]["E2"] = last.data.before["E2"]

-----------------------------------------------------------------------------
(* Properties: the password change procedure *)

\* the last step was the return of a password change
Changed == last.op = "ChangePassword"

\* the records of the user that hold ciphertext
Ciphertexts == {id \in Owned(rk.store) : RecordKinds[id] \in {"field", "envelope"}}

-----------------------------------------------------------------------------
(* Properties: shared secrets *)

\* C18: for two users with valid key pairs, the secret the one derives from
\* their private scalar and the other's stored public key is derived without
\* error and equals the secret the other derives the other way round.
C18_SecretsAgree ==
    last.op = "makeSharedSecret" /\ last.keyed /\ last.data.otherKeyed
    => /\ last.err = "nil" /\ last.data.back.err = "nil"
       /\ last.data.secret = last.data.back.secret

\* C19: between two users with session keys EncryptShared succeeds (the
\* random source giving a nonce), DecryptShared of its outputs by the other
\* user returns the data and the assertion without error, and DecryptShared
\* with another assertion or by a third user returns an error.
C19_SharedRoundTrip ==
    /\ last.op = "EncryptShared" /\ last.keyed /\ last.data.otherKeyed
         /\ last.data.nonce # <<>>
       => last.err = "nil"
    /\ last.op = "DecryptShared" /\ origin.op = "EncryptShared"
         /\ origin.tamper = "none"
       => IF /\ last.user = origin.data.other /\ last.data.other = origin.user
             /\ last.data.sign = origin.data.sign
          THEN /\ last.err = "nil"
               /\ last.data.data = origin.data.data
               /\ last.data.signed = origin.data.sign
          ELSE last.err # "nil"

-----------------------------------------------------------------------------
(* Properties: key derivation *)

\* C20: for every raw PBKDF2 output, the signing scalar derived from it is
\* k = (raw mod (n-1)) + 1 and satisfies 1 <= k <= n-1 (never zero, never
\* the order n of the curve), and the public key stored at the creation of
\* the user is the encoding of the point of that scalar.
C20_ScalarInRange ==
    last.op \in {"NewUser", "MakeKeys"}
    => /\ last.data.key.D = (last.data.raw % (CurveN - 1)) + 1
       /\ 1 <= last.data.key.D /\ last.data.key.D <= CurveN - 1
       /\ <<last.data.key.X, last.data.key.Y>> = ScalarBaseMult(last.data.key.D)
       /\ last.op = "NewUser"
          => last.data.PublicKey
               = EncodeToString(Marshal(ScalarBaseMult(last.data.key.D)[1],
                                        ScalarBaseMult(last.data.key.D)[2]))

\* C20, its case: a user is created from a raw value that is a multiple of
\* the order n; the scalar derived from it is neither zero nor one
C20_Witness ==
    /\ last.op = "NewUser"
    /\ last.data.raw % CurveN = 0
    /\ last.data.key.D > 1

-----------------------------------------------------------------------------
(* Properties: the users table *)

\* the last step was LoadUser of a name for which NewUser succeeded when the
\* name was unused
LoadedCreated ==
    /\ last.op = "LoadUser"
    /\ Handles[last.data.name].held /\ Handles[last.data.name].unused

\* C21: after NewUser succeeded for an unused name, LoadUser of the name
\* returns a user with the Id, Name, CryptoSalt, SigningSalt and PublicKey of
\* the created user and without session keys; after the created user was
\* dropped, LoadUser of the name returns an error.
C21_Lifecycle ==
    LoadedCreated
    => LET made   == Handles[last.data.name].user
           loaded == last.data.user
       IN  IF Handles[last.data.name].dropped THEN last.err # "nil"
           ELSE /\ last.err = "nil"
                /\ loaded.Id = made.Id /\ loaded.Name = made.Name
                /\ loaded.CryptoSalt = made.CryptoSalt
                /\ loaded.SigningSalt = made.SigningSalt
                /\ loaded.PublicKey = made.PublicKey
                /\ IsNil(loaded.keys) /\ ~IsNil(made.keys)

\* C21, its case: carol was created and is loaded
C21_Witness ==
    /\ LoadedCreated /\ last.data.name = "carol"
    /\ ~Handles["carol"].dropped
    /\ last.err = "nil" /\ last.data.user.Id = 4

\* C29: whenever NewUser returns without error, whatever the table held, the
\* table holds exactly one user with the name, and LoadUser of the name
\* returns the CryptoSalt, SigningSalt and PublicKey of the returned user.
C29_OneUserPerName ==
    last.op = "NewUser" /\ last.err = "nil"
    => LET loaded == LoadUser(users, last.data.name)
       IN  /\ Cardinality({u \in users : u.Name = last.data.name}) = 1
           /\ loaded.err = "nil"
           /\ loaded.user.CryptoSalt = last.data.user.CryptoSalt
           /\ loaded.user.SigningSalt = last.data.user.SigningSalt
           /\ loaded.user.PublicKey = last.data.user.PublicKey

-----------------------------------------------------------------------------
(* Properties: Error *)

\* C27: the string of an error that wraps an *Error is the new call site
\* (and the user, if given) followed directly by the message of the wrapped
\* error, without the wrapped error's own file:line or user.
C27_WrapKeepsMessage ==
    last.op = "NewError" /\ last.data.wraps > 0
    => ErrorString(last.data.error)
         = ErrorString([last.data.error EXCEPT !.Msg = <<>>]) \o last.data.content.Msg

-----------------------------------------------------------------------------
(* Properties: Grant *)

\* C30: the signature of a grant binds its triple (entryId, grantee, signer)
\* only: presented in a grant of the same signer for another entry or
\* another grantee, it makes neither Verify nor For return true.
C30_GrantBindsTriple ==
    /\ last.op = "Present"
    /\ <<last.data.other.Id, last.data.other.User>>
         # <<last.data.grant.Id, last.data.grant.User>>
    => ~last.data.verify /\ ~last.data.for

-----------------------------------------------------------------------------
(* Properties: delegation *)

\* C22: when Can answers true on a view whose permissions were signed by
\* the holder of another view of the entry, that holder held delegate
\* permission (d) on the entry when signing: a user without d never makes
\* another user's Can return true.
C22_AuthorityHeldDelegate ==
    (last.op = "Can" /\ last.ok /\ "authority" \in DOMAIN origin)
    => Can(getUser(origin.authority), <<"d">>, origin.authority)

-----------------------------------------------------------------------------
(* Properties: convergence *)

\* all views of every entry hold the same value in every field
Agree ==
    \A e \in EntryIds, f \in QueueFields, a \in QueueUsers, b \in QueueUsers :
        cq.views[a][e][f] = cq.views[b][e][f]

\* C25: once the modifications of the entries have stopped and every user
\* has replayed their mailbox, all views of an entry hold the same
\* plaintext in every shared and secret field, and keep doing so.
C25_Converges == <>[]Agree

-----------------------------------------------------------------------------
(* Properties: the lock of an entry *)

\* the goroutine is in the body of an accessor
Inside(g) == mu.at[g].pc # "idle"

\* C24: no write of a field of an entry runs while another read or write
\* of the entry runs; the permission a write checked still holds when the
\* write assigns the field; when no accessor runs the lock is free.
C24_EntryLocked ==
    /\ \A g \in Goroutines, h \in Goroutines :
          (g # h /\ Inside(g) /\ mu.at[g].op = "WriteGroup") => ~Inside(h)
    /\ \A g \in Goroutines : ~mu.at[g].stale
    /\ (\A g \in Goroutines : ~Inside(g)) => (mu.readers = 0 /\ ~mu.writer)

-----------------------------------------------------------------------------
(* Properties: admin *)

\* what Can answers the holder of the view of name n
HolderCan(n, query) == Can(getUser(views[n]), query, views[n])

\* C23: admin holds d and neither r nor w on the entry, in every state; and
\* when a user is deleted, Can answers every query on every other user's
\* view as it did before the deletion.
C23_AdminFixed ==
    [][/\ HolderCan("admin", <<"d">>)'
       /\ ~HolderCan("admin", <<"r">>)' /\ ~HolderCan("admin", <<"w">>)'
       /\ last'.op = "DeleteUser"
          => \A n \in DOMAIN views, query \in Queries :
                n # last'.user => HolderCan(n, query)' = HolderCan(n, query)]_vars

====
